---- MODULE Spec2Model ----
(***************************************************************************)
(* The .ase codec of src/src/file/ase_format.cpp as a state machine.       *)
(*                                                                         *)
(* A file is a sequence of bytes (0..255) and the stream cursor is a       *)
(* 0-based offset into it, as ftell() reports it.  onLoad and onSave are   *)
(* stepped chunk by chunk and frame by frame; every handler is an operator *)
(* that reads or produces bytes exactly where the C code does.             *)
(***************************************************************************)
EXTENDS Integers, Sequences, FiniteSets, TLC

VARIABLES
  pc,            \* where the running operation stands
  file,          \* the bytes of the file behind FILE* f
  cursor,        \* ftell(f)
  document,      \* fop->document: the sprite handed to onSave / built by onLoad
  header,        \* ASE_Header
  frame_header,  \* ASE_FrameHeader
  frame,         \* loop variable of the frame loop
  frame_pos,     \* onLoad: start offset of the current frame
  c,             \* onLoad: loop variable of the chunk loop
  chunk_pos,     \* onLoad: start offset of the current chunk
  chunk_size,    \* onLoad: declared size of the current chunk
  chunk_type,    \* onLoad: type code of the current chunk
  sprite,        \* onLoad: scalar fields of the Sprite being built
  palettes,      \* Sprite::m_palettes, ordered by frame
  layers,        \* the layer tree below Sprite::getFolder()
  cels,          \* every cel added to an image layer, in order of addCel
  stock,         \* Sprite::getStock(): handle h is stock[h + 1]
  last_layer,    \* onLoad: last_layer (previous_layer of the layer builder)
  current_level, \* onLoad: current_level
  oneframe,      \* fop->oneframe
  stop,          \* fop_is_stop(fop)
  errors,        \* messages handed to fop_error, in order
  progress,      \* cursor offsets handed to fop_progress, in order
  result,        \* return value of onLoad / onSave
  mask,          \* the Mask handed to the mask writer / made by the reader
  trace          \* observations of the run the properties are stated on

vars == <<pc, file, cursor, document, header, frame_header, frame, frame_pos,
          c, chunk_pos, chunk_size, chunk_type, sprite, palettes, layers,
          cels, stock, last_layer, current_level, oneframe, stop, errors,
          progress, result, mask, trace>>

(***************************************************************************)
(* Program constants                                                       *)
(***************************************************************************)
ASE_FILE_MAGIC == 42464
ASE_FILE_FRAME_MAGIC == 61946
ASE_FILE_CHUNK_FLI_COLOR2 == 4
ASE_FILE_CHUNK_FLI_COLOR == 11
ASE_FILE_CHUNK_LAYER == 8196
ASE_FILE_CHUNK_CEL == 8197
ASE_FILE_CHUNK_MASK == 8214
ASE_FILE_CHUNK_PATH == 8215
ASE_FILE_RAW_CEL == 0
ASE_FILE_LINK_CEL == 1
ASE_FILE_COMPRESSED_CEL == 2
HeaderSize == 128
FrameHeaderSize == 16
ChunkHeaderSize == 6
CompressedBufferSize == 4096
PaletteFullSize == 256

EOF == -1
NULL == -1

Min(a, b) == IF a < b THEN a ELSE b
Max(a, b) == IF a > b THEN a ELSE b

RECURSIVE Concat(_)
Concat(ss) == IF ss = <<>> THEN <<>> ELSE Head(ss) \o Concat(Tail(ss))

Zeros(n) == [i \in 1..n |-> 0]

(***************************************************************************)
(* Stream primitives (stdio and the little-endian helpers of the file      *)
(* library).  A read at or past the end of the file yields EOF and leaves  *)
(* the cursor where it is.                                                 *)
(***************************************************************************)
fgetc(f, pos) == IF pos >= 0 /\ pos < Len(f) THEN f[pos + 1] ELSE EOF

\* the cursor after n successive fgetc calls starting at pos
Skip(f, pos, n) == IF pos >= Len(f) THEN pos ELSE Min(pos + Max(n, 0), Len(f))

fgetw(f, pos) ==
  IF fgetc(f, pos) = EOF \/ fgetc(f, pos + 1) = EOF THEN EOF
  ELSE fgetc(f, pos + 1) * 256 + fgetc(f, pos)

\* 32-bit word; a top byte >= 128 is the negative int the C code gets
fgetl(f, pos) ==
  LET b1 == fgetc(f, pos)
      b2 == fgetc(f, pos + 1)
      b3 == fgetc(f, pos + 2)
      b4 == fgetc(f, pos + 3)
  IN IF b1 = EOF \/ b2 = EOF \/ b3 = EOF \/ b4 = EOF THEN EOF
     ELSE (IF b4 >= 128 THEN b4 - 256 ELSE b4) * 16777216
          + b3 * 65536 + b2 * 256 + b1

\* fseek(f, offset, SEEK_SET): a negative offset fails and moves nothing
fseek(pos, offset) == IF offset < 0 THEN pos ELSE offset

fputc(v) == <<v % 256>>
fputw(v) == <<v % 256, (v \div 256) % 256>>
fputl(v) == <<v % 256, (v \div 256) % 256, (v \div 65536) % 256,
              (v \div 16777216) % 256>>

\* the file after writing bytes at offset pos (a gap left by fseek reads 0)
WriteAt(f, pos, bytes) ==
  IF bytes = <<>> THEN f
  ELSE LET padded == IF Len(f) < pos THEN f \o Zeros(pos - Len(f)) ELSE f
           n == Max(Len(padded), pos + Len(bytes))
       IN [i \in 1..n |-> IF i > pos /\ i <= pos + Len(bytes)
                          THEN bytes[i - pos] ELSE padded[i]]

ase_file_write_padding(bytes) == Zeros(bytes)

ase_file_write_string(string) == fputw(Len(string)) \o string

\* const char* of a std::string: the bytes before the first NUL
RECURSIVE CStr(_)
CStr(s) == IF s = <<>> \/ Head(s) = 0 THEN <<>> ELSE <<Head(s)>> \o CStr(Tail(s))

\* ase_file_read_string: [s, pos]
ase_file_read_string(f, pos) ==
  LET length == fgetw(f, pos)
      p0 == Skip(f, pos, 2)
  IN IF length = EOF THEN [s |-> <<>>, pos |-> p0]
     ELSE [s |-> [i \in 1..length |->
                    LET b == fgetc(f, p0 + i - 1) IN IF b = EOF THEN 255 ELSE b],
           pos |-> Skip(f, p0, length)]

(***************************************************************************)
(* The document model the codec reads and writes through                   *)
(***************************************************************************)
\* a layer tree is a sequence of layers; layer i has identity i, the root
\* folder has identity 0 and no parent; children keep the order of addLayer
Parent(ls, id) == IF id = 0 THEN NULL ELSE ls[id].parent
IsFolder(ls, id) == id = 0 \/ ls[id].type = "folder"
IsImage(ls, id) == id # 0 /\ ls[id].type = "image"

RECURSIVE ChildrenFrom(_, _, _)
ChildrenFrom(ls, id, i) ==
  IF i > Len(ls) THEN <<>>
  ELSE (IF ls[i].parent = id THEN <<i>> ELSE <<>>) \o ChildrenFrom(ls, id, i + 1)

\* LayerFolder::getLayerBegin .. getLayerEnd
Children(ls, id) == ChildrenFrom(ls, id, 1)

\* the order in which index2layer / layer2index visit the tree
RECURSIVE Preorder(_, _)
RECURSIVE PreorderAll(_, _)
Preorder(ls, id) ==
  <<id>> \o (IF IsFolder(ls, id) THEN PreorderAll(ls, Children(ls, id)) ELSE <<>>)
PreorderAll(ls, ids) ==
  IF ids = <<>> THEN <<>> ELSE Preorder(ls, Head(ids)) \o PreorderAll(ls, Tail(ids))

\* Sprite::indexToLayer: the root folder has index -1; NULL when out of range
indexToLayer(ls, index) ==
  LET order == Preorder(ls, 0)
  IN IF index + 2 >= 1 /\ index + 2 <= Len(order) THEN order[index + 2] ELSE NULL

\* Sprite::layerToIndex
layerToIndex(ls, id) ==
  LET order == Preorder(ls, 0)
  IN (CHOOSE i \in 1..Len(order) : order[i] = id) - 2

\* LayerImage::getCel: the first cel of the layer at that frame, 0 when none
getCel(cs, layer, fr) ==
  LET hits == {i \in 1..Len(cs) : cs[i].layer = layer /\ cs[i].frame = fr}
  IN IF hits = {} THEN 0 ELSE CHOOSE i \in hits : \A j \in hits : i <= j

\* Sprite::getPalette: the last palette whose frame is not after fr
getPalette(pals, fr) ==
  LET hits == {i \in 1..Len(pals) : pals[i].frame <= fr}
  IN pals[CHOOSE i \in hits : \A j \in hits : j <= i]

\* Palette::countDiff
countDiff(p, q) ==
  LET lo == Min(Len(p), Len(q))
      hi == Max(Len(p), Len(q))
  IN Cardinality({i \in 1..lo : p[i] # q[i]}) + (hi - lo)

\* Sprite::setPalette(pal, true)
setPalette(pals, pal) ==
  IF \E i \in 1..Len(pals) : pals[i].frame = pal.frame
  THEN [i \in 1..Len(pals) |-> IF pals[i].frame = pal.frame THEN pal ELSE pals[i]]
  ELSE LET before == SelectSeq(pals, LAMBDA p : p.frame < pal.frame)
           after == SelectSeq(pals, LAMBDA p : p.frame > pal.frame)
       IN before \o <<pal>> \o after

\* Stock: handle 0 is the NULL image
NullImage == [w |-> 0, h |-> 0, pixels |-> <<>>]
getImage(st, h) == IF h >= 0 /\ h < Len(st) THEN st[h + 1] ELSE NullImage
addImage(st, image) == st \o <<image>>

\* ImageTraits::scanline_size
BytesPerPixel(format) ==
  CASE format = "RGB" -> 4 [] format = "GRAYSCALE" -> 2 [] OTHER -> 1
scanline_size(format, w) == BytesPerPixel(format) * w

(***************************************************************************)
(* zlib.  The codec only relies on the contract of deflate/inflate, so the *)
(* stream is a stored block: a method byte, a 16-bit length, the bytes and *)
(* a check byte.  inflate yields the bytes the input holds so far, a data  *)
(* error on a wrong method byte or check byte, and ignores what follows    *)
(* the end of the stream.                                                  *)
(***************************************************************************)
ZMethod == 120
ZCheckBase == 251

RECURSIVE Sum(_)
Sum(s) == IF s = <<>> THEN 0 ELSE Head(s) + Sum(Tail(s))

ZCheck(bytes) == (1 + Sum(bytes)) % ZCheckBase

deflate(bytes) ==
  <<ZMethod>> \o fputw(Len(bytes)) \o bytes \o <<ZCheck(bytes)>>

\* everything inflate has produced after being fed `input`:
\* [out |-> bytes, err |-> "ok" | "data_error"]
inflate(input) ==
  IF Len(input) = 0 THEN [out |-> <<>>, err |-> "ok"]
  ELSE IF input[1] # ZMethod THEN [out |-> <<>>, err |-> "data_error"]
  ELSE IF Len(input) < 3 THEN [out |-> <<>>, err |-> "ok"]
  ELSE LET n == input[2] + 256 * input[3]
           have == Min(n, Len(input) - 3)
           out == SubSeq(input, 4, 3 + have)
       IN IF Len(input) >= 4 + n /\ input[4 + n] # ZCheck(out)
          THEN [out |-> out, err |-> "data_error"]
          ELSE [out |-> out, err |-> "ok"]

(***************************************************************************)
(* Pixel I/O.  An image keeps its pixels as the bytes of its scanlines;    *)
(* PixelIO packs and unpacks whole bytes (_rgba, _graya, memcpy), so the   *)
(* byte view loses nothing.                                                *)
(***************************************************************************)
UNINIT == EOF - 1

\* Image::create: the pixel buffer is allocated, not cleared
Image_create(format, w, h) ==
  [w |-> w, h |-> h,
   pixels |-> [i \in 1..(h * scanline_size(format, w)) |-> UNINIT]]

\* read_raw_image: [pixels, pos, reports]
read_raw_image(f, pos, format, w, h) ==
  [pixels |-> [i \in 1..(h * scanline_size(format, w)) |->
                 IF fgetc(f, pos + i - 1) = EOF THEN 255
                 ELSE fgetc(f, pos + i - 1)],
   pos |-> Skip(f, pos, h * scanline_size(format, w)),
   reports |-> [y \in 1..h |-> Skip(f, pos, y * scanline_size(format, w))]]

\* write_raw_image
write_raw_image(image) == image.pixels

\* write_compressed_image: the rows go through one deflate session that is
\* finished on the last row; with no row nothing is written
write_compressed_image(image) ==
  IF image.h = 0 THEN <<>> ELSE deflate(image.pixels)

\* chunk_end is a size_t: a negative int becomes a huge offset
AsSizeT(n) == IF n < 0 THEN 2147483647 ELSE n

\* size_t input_bytes of the block loop: what is left of the chunk, at most
\* the buffer; negative stands for the wrapped difference
input_bytes(pos, chunk_end) ==
  IF pos + CompressedBufferSize > chunk_end THEN chunk_end - pos
  ELSE CompressedBufferSize

\* fread(&compressed[0], 1, input_bytes, f)
bytes_read(f, pos, chunk_end) ==
  Min(input_bytes(pos, chunk_end), Max(Len(f) - pos, 0))

\* where the block loop stands or has ended:
\* status "done" | "exception" | "hang" | "overrun"; input is what inflate
\* has been fed, reports the offsets handed to fop_progress
BlockState(status, pos, input, reports, what) ==
  [status |-> status, pos |-> pos, input |-> input, reports |-> reports,
   what |-> what]

RECURSIVE ReadBlocks(_, _, _, _, _, _)

\* a do-while that copies whatever inflate yields
Inflated_unchecked(f, pos, chunk_end, capacity, fed, reports, n, z) ==
  IF z.err = "data_error"
  THEN BlockState("exception", pos, fed, reports, "ZLib error in inflate().")
  ELSE IF n = 0
  THEN BlockState("hang", pos, fed, reports, "")
  ELSE ReadBlocks(f, pos, chunk_end, capacity, fed, reports \o <<pos>>)

\* the do-while around inflate, then fop_progress: fread has got n bytes
\* and left the cursor at pos, inflate has seen `fed` and stands at z
Inflated(f, pos, chunk_end, capacity, fed, reports, n, z) ==
  IF z.err = "data_error" /\ Len(z.out) <= capacity
  THEN BlockState("exception", pos, fed, reports, "ZLib error in inflate().")
  ELSE IF Len(z.out) > capacity
  THEN BlockState("exception", pos, fed, reports, "Bad compressed image.")
  ELSE IF n = 0
  THEN BlockState("hang", pos, fed, reports, "")
  ELSE ReadBlocks(f, pos, chunk_end, capacity, fed, reports \o <<pos>>)

\* zstream.next_in / avail_in after the fread of n bytes at pos
Fread(f, pos, chunk_end, capacity, fed, reports, n) ==
  Inflated(f, pos + n, chunk_end, capacity, fed, reports, n, inflate(fed))

\* while (true) of read_compressed_image at cursor pos
ReadBlocks(f, pos, chunk_end, capacity, input, reports) ==
  IF input_bytes(pos, chunk_end) < 0
  THEN BlockState("overrun", pos, input, reports, "")
  ELSE IF input_bytes(pos, chunk_end) = 0
  THEN BlockState("done", pos, input, reports, "")
  ELSE Fread(f, pos, chunk_end, capacity,
             input \o SubSeq(f, pos + 1, pos + bytes_read(f, pos, chunk_end)),
             reports, bytes_read(f, pos, chunk_end))

\* std::vector<uint8_t> uncompressed(size), zero filled, with the decoded
\* bytes copied in
uncompressed(size, out) == [i \in 1..size |-> IF i <= Len(out) THEN out[i] ELSE 0]

\* the read_scanline loop after the block loop r: an image reached only
\* when no exception was thrown; otherwise the pixels stay as allocated
read_scanlines(format, w, h, r) ==
  [status |-> r.status, pos |-> r.pos, reports |-> r.reports, what |-> r.what,
   pixels |-> IF r.status = "done"
              THEN uncompressed(h * scanline_size(format, w),
                                inflate(r.input).out)
              ELSE Image_create(format, w, h).pixels]

\* read_compressed_image: [status, pixels, pos, reports, what]
read_compressed_image(f, pos, chunk_end, format, w, h) ==
  read_scanlines(format, w, h,
                 ReadBlocks(f, pos, AsSizeT(chunk_end),
                            h * scanline_size(format, w), <<>>, <<>>))

(***************************************************************************)
(* Palette chunks                                                          *)
(***************************************************************************)
\* _rgba(r, g, b, a) as the four bytes of the colour; a component that is
\* EOF (-1) sets every bit from its own position upwards
rgba(r, g, b, a) ==
  IF r = EOF THEN <<255, 255, 255, 255>>
  ELSE IF g = EOF THEN <<r, 255, 255, 255>>
  ELSE IF b = EOF THEN <<r, g, 255, 255>>
  ELSE <<r, g, b, a>>

\* _rgb_scale_6[64]; an index outside the table reads whatever lies there
InScale6(v) == v >= 0 /\ v < 64
rgb_scale_6(v, garbage) == IF InScale6(v) THEN 4 * v + (v \div 16) ELSE garbage

\* Palette::setEntry on the colours of a palette; an index outside the
\* palette writes outside the vector and leaves the colours alone
InPalette(pal, i) == i >= 0 /\ i < Len(pal)
setEntry(pal, i, color) ==
  IF InPalette(pal, i) THEN [pal EXCEPT ![i + 1] = color] ELSE pal

\* the colour an entry is set to; scaled selects _rgb_scale_6
EntryColor(r, g, b, scaled, garbage) ==
  IF scaled
  THEN rgba(rgb_scale_6(r, garbage), rgb_scale_6(g, garbage),
            rgb_scale_6(b, garbage), 255)
  ELSE rgba(r, g, b, 255)

\* the entry reads or writes outside an array
EntryFault(pal, i, r, g, b, scaled) ==
  ~InPalette(pal, i) \/ (scaled /\ ~(InScale6(r) /\ InScale6(g) /\ InScale6(b)))

\* the colour entry skip + k is set to in  for (c=skip; c<skip+size; c++):
\* the k-th triple behind cursor pos
EntryAt(f, pos, k, scaled, garbage) ==
  EntryColor(fgetc(f, pos + 3 * k), fgetc(f, pos + 3 * k + 1),
             fgetc(f, pos + 3 * k + 2), scaled, garbage)

EntryFaultAt(f, pos, pal, skip, k, scaled) ==
  EntryFault(pal, skip + k, fgetc(f, pos + 3 * k), fgetc(f, pos + 3 * k + 1),
             fgetc(f, pos + 3 * k + 2), scaled)

\* the inner loop  for (c=skip; c<skip+size; c++)  of both decoders at
\* cursor d.pos, as the state it ends in: every index is written once, from
\* the next three bytes.  d = [pal, pos, writes, ub]
ReadEntries(f, d, skip, size, scaled, garbage) ==
  IF size <= 0 THEN d
  ELSE [pal |-> [j \in 1..Len(d.pal) |->
                   IF j - 1 >= skip /\ j - 1 < skip + size
                   THEN EntryAt(f, d.pos, j - 1 - skip, scaled, garbage)
                   ELSE d.pal[j]],
        pos |-> Skip(f, d.pos, 3 * size),
        writes |-> d.writes \o [k \in 1..size |-> skip + k - 1],
        ub |-> d.ub \/ \E k \in 0..(size - 1) :
                         EntryFaultAt(f, d.pos, d.pal, skip, k, scaled)]

\* a packet size taken as it is stored
PacketSize_as_stored(size) == size

\* if (!size) size = 256
PacketSize(size) == IF size = 0 THEN PaletteFullSize ELSE size

\* the packet loop  for (i=0; i<packets; i++)  of both decoders; skip is
\* the running index: each packet adds its skip byte to it.  At the end of
\* the file every further packet reads EOF twice and writes nothing.
RECURSIVE ReadPackets(_, _, _, _, _, _)
\* a running index that also moves behind the entries of each packet
ReadPacket_skip_past_size(f, d, skip, packets, scaled, garbage, size) ==
  ReadPackets(f,
              ReadEntries(f, [d EXCEPT !.pos = Skip(f, d.pos, 2)],
                          skip, size, scaled, garbage),
              skip + size, packets - 1, scaled, garbage)
ReadPacket(f, d, skip, packets, scaled, garbage, size) ==
  ReadPackets(f,
              ReadEntries(f, [d EXCEPT !.pos = Skip(f, d.pos, 2)],
                          skip, size, scaled, garbage),
              skip, packets - 1, scaled, garbage)
ReadPackets(f, d, skip, packets, scaled, garbage) ==
  IF packets <= 0 \/ d.pos >= Len(f) THEN d
  ELSE ReadPacket(f, d, skip + fgetc(f, d.pos), packets, scaled, garbage,
                  PacketSize(fgetc(f, d.pos + 1)))

\* ase_file_read_color_chunk on a copy pal of sprite->getPalette(frame):
\* [pal, pos, writes, ub]
ase_file_read_color_chunk(f, pos, pal, garbage) ==
  ReadPackets(f, [pal |-> pal, pos |-> Skip(f, pos, 2), writes |-> <<>>,
                  ub |-> FALSE],
              0, fgetw(f, pos), TRUE, garbage)

\* ase_file_read_color2_chunk: [pal, pos, writes, ub]
ase_file_read_color2_chunk(f, pos, pal) ==
  ReadPackets(f, [pal |-> pal, pos |-> Skip(f, pos, 2), writes |-> <<>>,
                  ub |-> FALSE],
              0, fgetw(f, pos), FALSE, 0)

\* ase_file_write_close_chunk taking chunk_end for the size
ase_file_write_chunk_end_as_size(type, body) ==
  fputl(Len(body)) \o fputw(type) \o body

\* the bracket ase_file_write_start_chunk .. ase_file_write_close_chunk
\* around a chunk body: the 6 reserved bytes are patched with size and type
ase_file_write_chunk(type, body) ==
  fputl(ChunkHeaderSize + Len(body)) \o fputw(type) \o body

\* ase_file_write_color2_chunk
ase_file_write_color2_chunk(pal) ==
  ase_file_write_chunk(ASE_FILE_CHUNK_FLI_COLOR2,
    fputw(1) \o fputc(0)
    \o fputc(IF Len(pal) = PaletteFullSize THEN 0 ELSE Len(pal))
    \o Concat([i \in 1..Len(pal) |-> <<pal[i][1], pal[i][2], pal[i][3]>>]))

\* what a writer of chunks has produced: [bytes, chunks]
NoChunks == [bytes |-> <<>>, chunks |-> 0]
OneChunk(bytes) == [bytes |-> bytes, chunks |-> 1]
Join(a, b) == [bytes |-> a.bytes \o b.bytes, chunks |-> a.chunks + b.chunks]

(***************************************************************************)
(* Layer chunks                                                            *)
(***************************************************************************)
\* the folder the new layer is added to:
\*   child_level == current_level: the parent of previous_layer
\*   child_level >  current_level: previous_layer itself
\*   child_level <  current_level: the parent of the parent of previous_layer
\* NULL when a getParent() on the way returns NULL
LayerTarget(ls, previous_layer, level, child_level) ==
  IF child_level = level THEN Parent(ls, previous_layer)
  ELSE IF child_level > level THEN previous_layer
  ELSE IF Parent(ls, previous_layer) = NULL THEN NULL
  ELSE Parent(ls, Parent(ls, previous_layer))

\* [layers, last_layer, current_level, pos, fault]
LayerResult(ls, last, level, pos, fault) ==
  [layers |-> ls, last_layer |-> last, current_level |-> level, pos |-> pos,
   fault |-> fault]

\* ase_file_read_layer_chunk after its reads: the layer is created when the
\* type is 0 or 1, named, added to its target and made previous_layer
\* fault: "none", "null_deref" (addLayer through a NULL parent), "bad_cast"
\* (previous_layer is no LayerFolder but is used as one; the new layer then
\* names it as its parent)
AddLayer(ls, previous_layer, level, flags, layer_type, child_level, str, target) ==
  IF layer_type # 0 /\ layer_type # 1
  THEN LayerResult(ls, previous_layer, level, str.pos, "none")
  ELSE IF target = NULL
  THEN LayerResult(ls, previous_layer, level, str.pos, "null_deref")
  ELSE LayerResult(Append(ls, [type |-> IF layer_type = 0 THEN "image"
                                        ELSE "folder",
                               name |-> CStr(str.s), flags |-> flags,
                               parent |-> target]),
                   Len(ls) + 1, child_level, str.pos,
                   IF IsFolder(ls, target) THEN "none" ELSE "bad_cast")

\* ase_file_read_layer_chunk
ase_file_read_layer_chunk(f, pos, ls, previous_layer, level) ==
  AddLayer(ls, previous_layer, level, fgetw(f, pos), fgetw(f, pos + 2),
           fgetw(f, pos + 4), ase_file_read_string(f, Skip(f, pos, 16)),
           LayerTarget(ls, previous_layer, level, fgetw(f, pos + 4)))

\* the child level ase_file_write_layer_chunk counts: parent links to the
\* root, less one
RECURSIVE ChildLevel(_, _)
ChildLevel(ls, id) ==
  IF Parent(ls, id) = NULL THEN -1 ELSE 1 + ChildLevel(ls, Parent(ls, id))

\* ase_file_write_layer_chunk (the blend mode word is written as 0; the
\* reader drops it)
ase_file_write_layer_chunk(ls, id) ==
  ase_file_write_chunk(ASE_FILE_CHUNK_LAYER,
    fputw(ls[id].flags)
    \o fputw(IF IsImage(ls, id) THEN 0 ELSE 1)
    \o fputw(ChildLevel(ls, id))
    \o fputw(0) \o fputw(0) \o fputw(0)
    \o ase_file_write_padding(4)
    \o ase_file_write_string(ls[id].name))

\* ase_file_write_layers: [bytes, chunks]
RECURSIVE ase_file_write_layers(_, _)
RECURSIVE WriteLayersOf(_, _)
ase_file_write_layers(ls, id) ==
  Join(OneChunk(ase_file_write_layer_chunk(ls, id)),
       IF IsFolder(ls, id) THEN WriteLayersOf(ls, Children(ls, id))
       ELSE NoChunks)
WriteLayersOf(ls, ids) ==
  IF ids = <<>> THEN NoChunks
  ELSE Join(ase_file_write_layers(ls, Head(ids)), WriteLayersOf(ls, Tail(ids)))

(***************************************************************************)
(* Cel chunks                                                              *)
(***************************************************************************)
\* a word taken as it is stored
AsShort_unsigned(v) == v

\* (short)fgetw(f)
AsShort(v) == IF v >= 32768 THEN v - 65536 ELSE v

\* a reader called outside any try block
Caught_nowhere(r) == r

\* try { read_compressed_image } catch (const std::exception& e): an
\* exception of the reader ends here, its message goes to fop_error
Caught(r) == IF r.status = "exception" THEN [r EXCEPT !.status = "caught"] ELSE r
TryReadCompressed(f, pos, chunk_end, format, w, h) ==
  Caught(read_compressed_image(f, pos, chunk_end, format, w, h))

\* a target test that only looks for the layer
CelTargetFault_any_layer(ls, layer) ==
  IF layer = NULL THEN "didn't found layer" ELSE ""

\* the target test of a cel chunk: the index names a layer and the layer
\* holds images
CelTargetFault(ls, layer) ==
  IF layer = NULL THEN "didn't found layer"
  ELSE IF ~IsImage(ls, layer) THEN "layer does not contain images"
  ELSE ""

\* a linked cel that shares the image of the cel it is linked to
LinkImage_shared(st, linked) == [stock |-> st, image |-> linked]

\* case ASE_FILE_LINK_CEL with the linked cel found: a copy of its image is
\* added to the stock: [stock, image]
LinkImage(st, linked) ==
  [stock |-> addImage(st, getImage(st, linked)), image |-> Len(st)]

\* [cels, stock, errors, pos, reports, status, link]
\* link: the cel a linked cel chunk was resolved to, 0 otherwise
\* status: "ok"; "hang" / "overrun" from read_compressed_image;
\* "exception" when one leaves the function;
\* "null_deref" when Image::createCopy is handed the NULL image
CelResult(cs, st, errs, pos, reports, status) ==
  [cels |-> cs, stock |-> st, errors |-> errs, pos |-> pos,
   reports |-> reports, status |-> status, link |-> 0]

\* new Cel(frame, 0) with position and opacity set
NewCel(f, pos, layer, fr) ==
  [layer |-> layer, frame |-> fr, x |-> AsShort(fgetw(f, pos + 2)),
   y |-> AsShort(fgetw(f, pos + 4)), opacity |-> fgetc(f, pos + 6),
   image |-> 0]

\* cel->setImage(sprite->getStock()->addImage(image)) and addCel
CelWithImage(cs, st, cel, image, errs, pos, reports) ==
  CelResult(Append(cs, [cel EXCEPT !.image = Len(st)]), addImage(st, image),
            errs, pos, reports, "ok")

\* case ASE_FILE_RAW_CEL, at the width word
RawCelRead(cs, st, cel, w, h, r) ==
  CelWithImage(cs, st, cel, [w |-> w, h |-> h, pixels |-> r.pixels], <<>>,
               r.pos, r.reports)
RawCel(f, pos, cs, st, cel, format, w, h) ==
  IF w > 0 /\ h > 0
  THEN RawCelRead(cs, st, cel, w, h,
                  read_raw_image(f, Skip(f, pos, 4), format, w, h))
  ELSE CelResult(Append(cs, cel), st, <<>>, Skip(f, pos, 4), <<>>, "ok")

\* case ASE_FILE_LINK_CEL, at the frame word; link is the cel found by
\* getCel, 0 when there is none
LinkCelCopy(cs, cel, pos, link, li) ==
  [CelResult(Append(cs, [cel EXCEPT !.image = li.image]), li.stock, <<>>, pos,
             <<>>, "ok") EXCEPT !.link = link]
LinkCelTo(cs, st, cel, pos, link) ==
  IF link = 0 THEN CelResult(cs, st, <<>>, pos, <<>>, "ok")
  ELSE IF cs[link].image = 0
  THEN CelResult(cs, st, <<>>, pos, <<>>, "null_deref")
  ELSE LinkCelCopy(cs, cel, pos, link, LinkImage(st, cs[link].image))
LinkCel(f, pos, cs, st, cel) ==
  LinkCelTo(cs, st, cel, Skip(f, pos, 2), getCel(cs, cel.layer, fgetw(f, pos)))

\* case ASE_FILE_COMPRESSED_CEL, at the width word
CompressedCelRead(cs, st, cel, w, h, r) ==
  IF r.status \in {"hang", "overrun", "exception"}
  THEN CelResult(cs, st, <<>>, r.pos, r.reports, r.status)
  ELSE CelWithImage(cs, st, cel, [w |-> w, h |-> h, pixels |-> r.pixels],
                    IF r.status = "caught" THEN <<r.what>> ELSE <<>>,
                    r.pos, r.reports)
CompressedCel(f, pos, cs, st, cel, format, chunk_end, w, h) ==
  IF w > 0 /\ h > 0
  THEN CompressedCelRead(cs, st, cel, w, h,
         TryReadCompressed(f, Skip(f, pos, 4), chunk_end, format, w, h))
  ELSE CelResult(Append(cs, cel), st, <<>>, Skip(f, pos, 4), <<>>, "ok")

\* switch (cel_type) and the addCel after it, with the cursor behind the
\* 16 bytes every cel chunk starts with
CelByType(f, pos, cs, st, cel, cel_type, format, chunk_end) ==
  IF cel_type = ASE_FILE_RAW_CEL
  THEN RawCel(f, pos, cs, st, cel, format, fgetw(f, pos), fgetw(f, pos + 2))
  ELSE IF cel_type = ASE_FILE_LINK_CEL
  THEN LinkCel(f, pos, cs, st, cel)
  ELSE IF cel_type = ASE_FILE_COMPRESSED_CEL
  THEN CompressedCel(f, pos, cs, st, cel, format, chunk_end,
                     fgetw(f, pos), fgetw(f, pos + 2))
  ELSE CelResult(Append(cs, cel), st, <<>>, pos, <<>>, "ok")

\* the target test on the layer the index names
CelOnLayer(f, pos, ls, cs, st, fr, format, chunk_end, layer) ==
  IF CelTargetFault(ls, layer) # ""
  THEN CelResult(cs, st, <<CelTargetFault(ls, layer)>>, Skip(f, pos, 16),
                 <<>>, "ok")
  ELSE CelByType(f, Skip(f, pos, 16), cs, st, NewCel(f, pos, layer, fr),
                 fgetw(f, pos + 7), format, chunk_end)

\* ase_file_read_cel_chunk
ase_file_read_cel_chunk(f, pos, ls, cs, st, fr, pixelFormat, chunk_end) ==
  CelOnLayer(f, pos, ls, cs, st, fr, pixelFormat, chunk_end,
             indexToLayer(ls, fgetw(f, pos)))

\* ase_file_write_cel_chunk
ase_file_write_cel_chunk(doc, cel) ==
  ase_file_write_chunk(ASE_FILE_CHUNK_CEL,
    fputw(layerToIndex(doc.layers, cel.layer))
    \o fputw(cel.x) \o fputw(cel.y) \o fputc(cel.opacity)
    \o fputw(ASE_FILE_COMPRESSED_CEL)
    \o ase_file_write_padding(7)
    \o (IF cel.image # 0
        THEN fputw(getImage(doc.stock, cel.image).w)
             \o fputw(getImage(doc.stock, cel.image).h)
             \o write_compressed_image(getImage(doc.stock, cel.image))
        ELSE fputw(0) \o fputw(0)))

\* ase_file_write_cels: [bytes, chunks]
RECURSIVE ase_file_write_cels(_, _, _)
RECURSIVE WriteCelsOf(_, _, _)
OwnCel(doc, id, cel) ==
  IF IsImage(doc.layers, id) /\ cel # 0
  THEN OneChunk(ase_file_write_cel_chunk(doc, doc.cels[cel]))
  ELSE NoChunks
ase_file_write_cels(doc, id, fr) ==
  Join(OwnCel(doc, id, getCel(doc.cels, id, fr)),
       IF IsFolder(doc.layers, id)
       THEN WriteCelsOf(doc, Children(doc.layers, id), fr)
       ELSE NoChunks)
WriteCelsOf(doc, ids, fr) ==
  IF ids = <<>> THEN NoChunks
  ELSE Join(ase_file_write_cels(doc, Head(ids), fr),
            WriteCelsOf(doc, Tail(ids), fr))

(***************************************************************************)
(* Mask chunks                                                             *)
(***************************************************************************)
\* the bytes of a w x h bitmap: h rows of (w+7)/8 bytes
MaskBytes(w, h) == Max(h, 0) * ((Max(w, 0) + 7) \div 8)

\* a Mask: bounds, name and bitmap; bitmap[v + 1][u + 1] says whether the
\* pixel (u, v) of the bounds is inside the mask
NoMask == [x |-> 0, y |-> 0, w |-> 0, h |-> 0, name |-> <<>>, bitmap |-> <<>>]

\* image_getpixel on the bitmap of a mask: a position outside the bitmap
\* holds no pixel of the mask
image_getpixel(m, u, v) ==
  IF u >= 0 /\ u < m.w /\ v >= 0 /\ v < m.h /\ m.bitmap[v + 1][u + 1]
  THEN 1 ELSE 0

\* byte & (1<<(7-k)); EOF has every bit set
BitOf(byte, k) == byte = EOF \/ (byte \div (2 ^ (7 - k))) % 2 = 1

\* the byte the writer makes of the pixels 8u .. 8u+7 of row v
MaskByte(m, u, v) ==
  Sum([k \in 1..8 |-> IF image_getpixel(m, u * 8 + k - 1, v) # 0
                      THEN 2 ^ (8 - k) ELSE 0])

\* ase_file_write_mask_chunk
ase_file_write_mask_chunk(m) ==
  ase_file_write_chunk(ASE_FILE_CHUNK_MASK,
    fputw(m.x) \o fputw(m.y) \o fputw(m.w) \o fputw(m.h)
    \o ase_file_write_padding(8) \o ase_file_write_string(m.name)
    \o Concat([v \in 1..m.h |->
                 Concat([u \in 1..((m.w + 7) \div 8) |->
                           fputc(MaskByte(m, u - 1, v - 1))])]))

\* Mask::replace(x, y, w, h) and the image_putpixel calls of the reader: the
\* bitmap of the bounds, each pixel from its bit of the rows at offset at; a
\* position outside the bitmap is not written
MaskRead(f, at, x, y, w, h, name) ==
  [x |-> x, y |-> y, w |-> w, h |-> h, name |-> name,
   bitmap |-> [v \in 1..h |->
                 [u \in 1..w |->
                    BitOf(fgetc(f, at + (v - 1) * ((w + 7) \div 8)
                                      + ((u - 1) \div 8)),
                          (u - 1) % 8)]]]

\* ase_file_read_mask_chunk: [pos, mask].  onLoad deletes the mask at once
\* and keeps the cursor
ase_file_read_mask_chunk(f, pos) ==
  [pos |-> Skip(f, ase_file_read_string(f, Skip(f, pos, 16)).pos,
                MaskBytes(fgetw(f, pos + 4), fgetw(f, pos + 6))),
   mask |-> MaskRead(f, ase_file_read_string(f, Skip(f, pos, 16)).pos,
                     fgetw(f, pos), fgetw(f, pos + 2), fgetw(f, pos + 4),
                     fgetw(f, pos + 6),
                     ase_file_read_string(f, Skip(f, pos, 16)).s)]

(***************************************************************************)
(* The state as one record, so that a step of onLoad or onSave is an       *)
(* operator from state to state                                            *)
(***************************************************************************)
M == [pc |-> pc, file |-> file, cursor |-> cursor, document |-> document,
      header |-> header, frame_header |-> frame_header, frame |-> frame,
      frame_pos |-> frame_pos, c |-> c, chunk_pos |-> chunk_pos,
      chunk_size |-> chunk_size, chunk_type |-> chunk_type,
      sprite |-> sprite, palettes |-> palettes, layers |-> layers,
      cels |-> cels, stock |-> stock, last_layer |-> last_layer,
      current_level |-> current_level, oneframe |-> oneframe, stop |-> stop,
      errors |-> errors, progress |-> progress, result |-> result,
      mask |-> mask, trace |-> trace]

Set(m) ==
  /\ pc' = m.pc /\ file' = m.file /\ cursor' = m.cursor
  /\ document' = m.document /\ header' = m.header
  /\ frame_header' = m.frame_header /\ frame' = m.frame
  /\ frame_pos' = m.frame_pos /\ c' = m.c /\ chunk_pos' = m.chunk_pos
  /\ chunk_size' = m.chunk_size /\ chunk_type' = m.chunk_type
  /\ sprite' = m.sprite /\ palettes' = m.palettes /\ layers' = m.layers
  /\ cels' = m.cels /\ stock' = m.stock /\ last_layer' = m.last_layer
  /\ current_level' = m.current_level /\ oneframe' = m.oneframe
  /\ stop' = m.stop /\ errors' = m.errors /\ progress' = m.progress
  /\ result' = m.result /\ mask' = m.mask /\ trace' = m.trace

NoSprite == [format |-> "none", width |-> 0, height |-> 0, ncolors |-> 0,
             frames |-> 0, transparent |-> 0, durations |-> <<>>]
NoDocument == [sprite |-> NoSprite, palettes |-> <<>>, layers |-> <<>>,
               cels |-> <<>>, stock |-> <<>>]
NoHeader == [size |-> 0, magic |-> 0, frames |-> 0, width |-> 0, height |-> 0,
             depth |-> 0, speed |-> 0, transparent_index |-> 0, ncolors |-> 0]
NoFrameHeader == [size |-> 0, magic |-> 0, chunks |-> 0, duration |-> 0]
NoInput == [subject |-> "none", fill |-> 0, follower |-> "none", frames |-> 0,
            magic |-> 0, frame_magic |-> 0, depth |-> 0, ncolors |-> 0,
            cut |-> 0, first_magic |-> 0]

\* what the properties need to know of the run so far:
\*   origin, source, input: where the file comes from
\*   handler_end, note: the cursor at which the last handler returned, and
\*     which handler it was
\*   writes: the indices the last palette decoder handed to setEntry
\*   links: <<cel, source cel>> for every cel made from a linked cel chunk
\*   edited: the cel whose image was edited after the load
\*   mask: the mask the mask writer was handed
NoTrace == [origin |-> "none", source |-> NoDocument, input |-> NoInput,
            handler_end |-> 0, note |-> "", writes |-> <<>>, links |-> <<>>,
            edited |-> 0, mask |-> NoMask]

\* the state before onLoad or onSave is entered
Blank == [pc |-> "idle", file |-> <<>>, cursor |-> 0, document |-> NoDocument,
          header |-> NoHeader, frame_header |-> NoFrameHeader, frame |-> 0,
          frame_pos |-> 0, c |-> 0, chunk_pos |-> 0, chunk_size |-> 0,
          chunk_type |-> 0, sprite |-> NoSprite, palettes |-> <<>>,
          layers |-> <<>>, cels |-> <<>>, stock |-> <<>>, last_layer |-> 0,
          current_level |-> -1, oneframe |-> FALSE, stop |-> FALSE,
          errors |-> <<>>, progress |-> <<>>, result |-> FALSE,
          mask |-> NoMask, trace |-> NoTrace]

\* what a uint16_t / uint8_t field holds after being assigned EOF
U16(v) == IF v = EOF THEN 65535 ELSE v
U8(v) == IF v = EOF THEN 255 ELSE v

(***************************************************************************)
(* onLoad                                                                  *)
(***************************************************************************)
\* a header reader that does not look at the magic number
ase_file_read_header_any_magic(f, pos) ==
  [ok |-> TRUE,
   header |-> [size |-> fgetl(f, pos), magic |-> U16(fgetw(f, pos + 4)),
               frames |-> U16(fgetw(f, pos + 6)),
               width |-> U16(fgetw(f, pos + 8)),
               height |-> U16(fgetw(f, pos + 10)),
               depth |-> U16(fgetw(f, pos + 12)),
               speed |-> U16(fgetw(f, pos + 18)),
               transparent_index |-> U8(fgetc(f, pos + 28)),
               ncolors |-> IF U16(fgetw(f, pos + 32)) = 0 THEN PaletteFullSize
                           ELSE U16(fgetw(f, pos + 32))],
   pos |-> fseek(pos, pos + HeaderSize)]

\* a header reader that keeps the palette count as it is stored
ase_file_read_header_count_as_stored(f, pos) ==
  IF U16(fgetw(f, pos + 4)) # ASE_FILE_MAGIC
  THEN [ok |-> FALSE,
        header |-> [NoHeader EXCEPT !.size = fgetl(f, pos),
                                    !.magic = U16(fgetw(f, pos + 4))],
        pos |-> Skip(f, pos, 6)]
  ELSE [ok |-> TRUE,
        header |-> [size |-> fgetl(f, pos), magic |-> U16(fgetw(f, pos + 4)),
                    frames |-> U16(fgetw(f, pos + 6)),
                    width |-> U16(fgetw(f, pos + 8)),
                    height |-> U16(fgetw(f, pos + 10)),
                    depth |-> U16(fgetw(f, pos + 12)),
                    speed |-> U16(fgetw(f, pos + 18)),
                    transparent_index |-> U8(fgetc(f, pos + 28)),
                    ncolors |-> U16(fgetw(f, pos + 32))],
        pos |-> fseek(pos, pos + HeaderSize)]

\* ase_file_read_header: [ok, header, pos]
ase_file_read_header(f, pos) ==
  LET magic == U16(fgetw(f, pos + 4))
      stored == U16(fgetw(f, pos + 32))
  IN IF magic # ASE_FILE_MAGIC
     THEN [ok |-> FALSE,
           header |-> [NoHeader EXCEPT !.size = fgetl(f, pos), !.magic = magic],
           pos |-> Skip(f, pos, 6)]
     ELSE [ok |-> TRUE,
           header |-> [size |-> fgetl(f, pos), magic |-> magic,
                       frames |-> U16(fgetw(f, pos + 6)),
                       width |-> U16(fgetw(f, pos + 8)),
                       height |-> U16(fgetw(f, pos + 10)),
                       depth |-> U16(fgetw(f, pos + 12)),
                       speed |-> U16(fgetw(f, pos + 18)),
                       transparent_index |-> U8(fgetc(f, pos + 28)),
                       ncolors |-> IF stored = 0 THEN PaletteFullSize ELSE stored],
           pos |-> fseek(pos, pos + HeaderSize)]

\* new Sprite(format, width, height, ncolors), setTotalFrames,
\* setDurationForAllFrames, setTransparentColor
NewSprite(h) ==
  [format |-> IF h.depth = 32 THEN "RGB"
              ELSE IF h.depth = 16 THEN "GRAYSCALE" ELSE "INDEXED",
   width |-> h.width, height |-> h.height, ncolors |-> h.ncolors,
   frames |-> h.frames, transparent |-> h.transparent_index,
   durations |-> [i \in 1..h.frames |-> h.speed]]

\* the palette a new Sprite starts with: ncolors opaque black entries
NewPalette(n) == [frame |-> 0, colors |-> [i \in 1..n |-> <<0, 0, 0, 255>>]]

\* onLoad from the header read to the frame loop
onLoad_sprite(m, r) ==
  IF ~r.ok
  THEN [m EXCEPT !.pc = "done", !.header = r.header, !.cursor = r.pos,
                 !.errors = Append(@, "Error reading header"),
                 !.result = FALSE]
  ELSE [m EXCEPT !.pc = IF r.header.frames > 0 THEN "frame" ELSE "finish",
                 !.header = r.header, !.cursor = r.pos,
                 !.sprite = NewSprite(r.header),
                 !.palettes = <<NewPalette(r.header.ncolors)>>,
                 !.layers = <<>>, !.cels = <<>>, !.stock = <<NullImage>>,
                 !.last_layer = 0, !.current_level = -1, !.frame = 0]

\* onLoad up to the frame loop
onLoad_header(m) == onLoad_sprite(m, ase_file_read_header(m.file, 0))

\* ase_file_read_frame_header: [frame_header, pos]
ase_file_read_frame_header(f, pos) ==
  [frame_header |-> [size |-> fgetl(f, pos), magic |-> U16(fgetw(f, pos + 4)),
                     chunks |-> U16(fgetw(f, pos + 6)),
                     duration |-> U16(fgetw(f, pos + 8))],
   pos |-> Skip(f, pos, FrameHeaderSize)]

\* a frame loop that takes every frame header as it comes
GoodFrame_any_magic(fh) == TRUE

\* if (frame_header.magic == ASE_FILE_FRAME_MAGIC)
GoodFrame(fh) == fh.magic = ASE_FILE_FRAME_MAGIC

\* the head of the frame loop body with the frame header read: duration
onLoad_frame_head(m, r) ==
  [m EXCEPT !.frame_pos = m.cursor,
            !.progress = Append(@, m.cursor),
            !.frame_header = r.frame_header, !.cursor = r.pos, !.c = 0,
            !.sprite.durations =
               IF GoodFrame(r.frame_header) /\ r.frame_header.duration > 0
               THEN [@ EXCEPT ![m.frame + 1] = r.frame_header.duration] ELSE @,
            !.pc = IF GoodFrame(r.frame_header) /\ r.frame_header.chunks > 0
                   THEN "chunk" ELSE "frame_end"]

\* the head of the frame loop body: progress, frame header, duration
onLoad_frame(m) ==
  onLoad_frame_head(m, ase_file_read_frame_header(m.file, m.cursor))

\* the head of the chunk loop body: progress, chunk size and type
onLoad_chunk(m) ==
  [m EXCEPT !.chunk_pos = m.cursor,
            !.progress = Append(@, m.cursor),
            !.chunk_size = fgetl(m.file, m.cursor),
            !.chunk_type = fgetw(m.file, m.cursor + 4),
            !.cursor = Skip(m.file, m.cursor, ChunkHeaderSize),
            !.pc = "dispatch"]

\* a switch whose default label falls into the layer case
ChunkHandler_default_is_layer(type) ==
  CASE type = ASE_FILE_CHUNK_FLI_COLOR -> "color"
    [] type = ASE_FILE_CHUNK_FLI_COLOR2 -> "color2"
    [] type = ASE_FILE_CHUNK_CEL -> "cel"
    [] type = ASE_FILE_CHUNK_MASK -> "mask"
    [] type = ASE_FILE_CHUNK_PATH -> "path"
    [] OTHER -> "layer"

\* switch (chunk_type)
ChunkHandler(type) ==
  CASE type = ASE_FILE_CHUNK_FLI_COLOR -> "color"
    [] type = ASE_FILE_CHUNK_FLI_COLOR2 -> "color2"
    [] type = ASE_FILE_CHUNK_LAYER -> "layer"
    [] type = ASE_FILE_CHUNK_CEL -> "cel"
    [] type = ASE_FILE_CHUNK_MASK -> "mask"
    [] type = ASE_FILE_CHUNK_PATH -> "path"
    [] OTHER -> "default"

\* a handler has returned at cursor pos
Returned(m, pos, note) ==
  [m EXCEPT !.cursor = pos, !.pc = "skip",
            !.trace.handler_end = pos, !.trace.note = note]

\* the palette decoder the chunk type selects, on a copy of prev_pal
read_color(m, garbage, prev_pal) ==
  IF m.chunk_type = ASE_FILE_CHUNK_FLI_COLOR
  THEN ase_file_read_color_chunk(m.file, m.cursor, prev_pal, garbage)
  ELSE ase_file_read_color2_chunk(m.file, m.cursor, prev_pal)

\* if (prev_pal->countDiff(pal, NULL, NULL) > 0) sprite->setPalette(pal, true)
onLoad_palette(m, outcome, prev_pal, d) ==
  IF d.ub /\ outcome = "crash" THEN [m EXCEPT !.pc = "crashed"]
  ELSE [Returned(m, d.pos, "color") EXCEPT
          !.palettes = IF countDiff(prev_pal, d.pal) > 0
                       THEN setPalette(@, [frame |-> m.frame, colors |-> d.pal])
                       ELSE @,
          !.trace.writes = d.writes]

onLoad_color_read(m, garbage, outcome, prev_pal) ==
  onLoad_palette(m, outcome, prev_pal, read_color(m, garbage, prev_pal))

\* case ASE_FILE_CHUNK_FLI_COLOR / ASE_FILE_CHUNK_FLI_COLOR2
onLoad_color(m, garbage, outcome) ==
  IF m.sprite.format = "INDEXED"
  THEN onLoad_color_read(m, garbage, outcome,
                         getPalette(m.palettes, m.frame).colors)
  ELSE [Returned(m, m.cursor, "color") EXCEPT
          !.errors = Append(@, "Warning: was found a color chunk in non-8bpp file")]

\* the layer chunk has been read
onLoad_layer_read(m, outcome, r) ==
  IF r.fault = "null_deref" \/ (r.fault = "bad_cast" /\ outcome = "crash")
  THEN [m EXCEPT !.pc = "crashed"]
  ELSE [Returned(m, r.pos, "layer") EXCEPT
          !.layers = r.layers, !.last_layer = r.last_layer,
          !.current_level = r.current_level]

\* case ASE_FILE_CHUNK_LAYER
onLoad_layer(m, outcome) ==
  onLoad_layer_read(m, outcome,
                    ase_file_read_layer_chunk(m.file, m.cursor, m.layers,
                                              m.last_layer, m.current_level))

\* the cel chunk has been read, or its reader has not returned
onLoad_cel_read(m, outcome, r) ==
  IF r.status = "null_deref" \/ (r.status = "overrun" /\ outcome = "crash")
  THEN [m EXCEPT !.progress = @ \o r.reports, !.pc = "crashed"]
  ELSE IF r.status \in {"hang", "overrun"}
  THEN [m EXCEPT !.progress = @ \o r.reports, !.pc = "hung", !.cursor = r.pos]
  ELSE IF r.status = "exception"
  THEN [m EXCEPT !.progress = @ \o r.reports, !.pc = "aborted",
                 !.cursor = r.pos]
  ELSE [Returned(m, r.pos, "cel") EXCEPT
          !.progress = @ \o r.reports,
          !.cels = r.cels, !.stock = r.stock,
          !.errors = @ \o r.errors,
          !.trace.links = IF r.link # 0 THEN Append(@, <<Len(r.cels), r.link>>)
                          ELSE @]

\* case ASE_FILE_CHUNK_CEL
onLoad_cel(m, outcome) ==
  onLoad_cel_read(m, outcome,
                  ase_file_read_cel_chunk(m.file, m.cursor, m.layers, m.cels,
                                          m.stock, m.frame, m.sprite.format,
                                          m.chunk_pos + m.chunk_size))

\* case ASE_FILE_CHUNK_MASK
onLoad_mask(m) ==
  Returned(m, ase_file_read_mask_chunk(m.file, m.cursor).pos, "mask")

\* case ASE_FILE_CHUNK_PATH
onLoad_path(m) == Returned(m, m.cursor, "path")

\* default
onLoad_default(m) ==
  [Returned(m, m.cursor, "default") EXCEPT
     !.errors = Append(@, "Warning: Unsupported chunk type (skipping)")]

\* a chunk loop that trusts the cursor the handler left
onLoad_skip_chunk_no_seek(m) ==
  [m EXCEPT !.c = m.c + 1,
            !.pc = IF m.c + 1 < m.frame_header.chunks THEN "chunk"
                   ELSE "frame_end"]

\* fseek(f, chunk_pos+chunk_size, SEEK_SET) and the step of the chunk loop
onLoad_skip_chunk(m) ==
  [m EXCEPT !.cursor = fseek(m.cursor, m.chunk_pos + m.chunk_size),
            !.c = m.c + 1,
            !.pc = IF m.c + 1 < m.frame_header.chunks THEN "chunk"
                   ELSE "frame_end"]

\* a frame loop that never asks fop_is_stop
onLoad_frame_end_no_stop(m) ==
  [m EXCEPT !.cursor = fseek(m.cursor, m.frame_pos + m.frame_header.size),
            !.frame = IF m.oneframe THEN @ ELSE @ + 1,
            !.pc = IF m.oneframe \/ m.frame + 1 >= m.sprite.frames
                   THEN "finish" ELSE "frame"]

\* fseek(f, frame_pos+frame_header.size, SEEK_SET), the two breaks and the
\* step of the frame loop
onLoad_frame_end(m) ==
  [m EXCEPT !.cursor = fseek(m.cursor, m.frame_pos + m.frame_header.size),
            !.frame = IF m.oneframe \/ m.stop THEN @ ELSE @ + 1,
            !.pc = IF m.oneframe \/ m.stop \/ m.frame + 1 >= m.sprite.frames
                   THEN "finish" ELSE "frame"]

\* fop->document = new Document(sprite); no read error: return true
onLoad_finish(m) ==
  [m EXCEPT !.document = [sprite |-> m.sprite, palettes |-> m.palettes,
                          layers |-> m.layers, cels |-> m.cels,
                          stock |-> m.stock],
            !.result = TRUE, !.pc = "done"]

\* image_putpixel on the first pixel of the image of cel i of the loaded
\* document
PutPixelIn(m, i, st) ==
  [m EXCEPT !.stock = st, !.document.stock = st, !.pc = "edited",
            !.trace.edited = i]
PutPixel(m, i) ==
  PutPixelIn(m, i, [m.stock EXCEPT ![m.cels[i].image + 1].pixels[1] =
                                      (@ + 1) % 256])

\* onLoad run to its end on its own: the steps above in the order of the
\* code, with no cancellation and undefined behaviour going on
Ended == {"done", "edited", "crashed", "hung", "aborted"}

onLoad_dispatch(m, handler) ==
  CASE handler \in {"color", "color2"} -> onLoad_color(m, 0, "continue")
    [] handler = "layer" -> onLoad_layer(m, "continue")
    [] handler = "cel" -> onLoad_cel(m, "continue")
    [] handler = "mask" -> onLoad_mask(m)
    [] handler = "path" -> onLoad_path(m)
    [] OTHER -> onLoad_default(m)

onLoad_step(m) ==
  CASE m.pc = "load" -> onLoad_header(m)
    [] m.pc = "frame" -> onLoad_frame(m)
    [] m.pc = "chunk" -> onLoad_chunk(m)
    [] m.pc = "dispatch" -> onLoad_dispatch(m, ChunkHandler(m.chunk_type))
    [] m.pc = "skip" -> onLoad_skip_chunk(m)
    [] m.pc = "frame_end" -> onLoad_frame_end(m)
    [] m.pc = "finish" -> onLoad_finish(m)
    [] OTHER -> m

RECURSIVE onLoad(_)
onLoad(m) == IF m.pc \in Ended THEN m ELSE onLoad(onLoad_step(m))

(***************************************************************************)
(* onSave                                                                  *)
(***************************************************************************)
\* ase_file_prepare_header: the header of a sprite, size still 0
ase_file_prepare_header(doc) ==
  [size |-> 0, magic |-> ASE_FILE_MAGIC, frames |-> doc.sprite.frames,
   width |-> doc.sprite.width, height |-> doc.sprite.height,
   depth |-> CASE doc.sprite.format = "RGB" -> 32
               [] doc.sprite.format = "GRAYSCALE" -> 16
               [] doc.sprite.format = "INDEXED" -> 8
               [] OTHER -> 0,
   speed |-> doc.sprite.durations[1],
   transparent_index |-> doc.sprite.transparent,
   ncolors |-> Len(getPalette(doc.palettes, 0).colors)]

\* the bytes ase_file_write_header puts at header->pos
ase_file_write_header(h) ==
  fputl(h.size) \o fputw(h.magic) \o fputw(h.frames) \o fputw(h.width)
  \o fputw(h.height) \o fputw(h.depth) \o fputl(0) \o fputw(h.speed)
  \o fputl(0) \o fputl(0) \o fputc(h.transparent_index)
  \o fputc(0) \o fputc(0) \o fputc(0) \o fputw(h.ncolors)

\* the bytes ase_file_write_frame_header puts at the start of the frame
ase_file_write_frame_header(fh) ==
  fputl(fh.size) \o fputw(fh.magic) \o fputw(fh.chunks) \o fputw(fh.duration)
  \o ase_file_write_padding(6)

\* a test for a palette chunk that leaves the pixel format out
PaletteChanges_any_format(doc, fr) ==
  fr = 0 \/ countDiff(getPalette(doc.palettes, fr - 1).colors,
                      getPalette(doc.palettes, fr).colors) > 0

\* the test of onSave for a palette chunk in frame fr
PaletteChanges(doc, fr) ==
  doc.sprite.format = "INDEXED"
  /\ (fr = 0 \/ countDiff(getPalette(doc.palettes, fr - 1).colors,
                          getPalette(doc.palettes, fr).colors) > 0)

\* the colour chunk of frame fr, when onSave writes one
PaletteChunk(doc, fr) ==
  IF PaletteChanges(doc, fr)
  THEN OneChunk(ase_file_write_color2_chunk(getPalette(doc.palettes, fr).colors))
  ELSE NoChunks

\* the layer chunks: in the first frame only
LayerChunks(doc, fr) ==
  IF fr = 0 THEN WriteLayersOf(doc.layers, Children(doc.layers, 0))
  ELSE NoChunks

\* the chunks onSave writes in frame fr: [bytes, chunks]
FrameChunks(doc, fr) ==
  Join(Join(PaletteChunk(doc, fr), LayerChunks(doc, fr)),
       ase_file_write_cels(doc, 0, fr))

\* onSave up to the frame loop: ase_file_prepare_header
onSave_begin(m) ==
  [m EXCEPT !.header = ase_file_prepare_header(m.document),
            !.file = <<>>, !.cursor = fseek(0, HeaderSize), !.frame = 0,
            !.pc = IF m.document.sprite.frames > 0 THEN "save_frame"
                   ELSE "save_finish"]

\* ASE_FrameHeader when ase_file_write_frame_header writes it
ClosedFrameHeader(m, body) ==
  [size |-> FrameHeaderSize + Len(body.bytes), magic |-> ASE_FILE_FRAME_MAGIC,
   chunks |-> body.chunks,
   duration |-> m.document.sprite.durations[m.frame + 1]]

\* the chunks go behind the 16 bytes kept for the frame header, which is
\* written last
onSave_frame_write(m, body, fh) ==
  [m EXCEPT !.frame_header = fh,
            !.file = WriteAt(WriteAt(m.file, m.cursor + FrameHeaderSize,
                                     body.bytes),
                             m.cursor, ase_file_write_frame_header(fh)),
            !.cursor = m.cursor + fh.size,
            !.frame = m.frame + 1,
            !.pc = IF m.frame + 1 < m.document.sprite.frames
                   THEN "save_frame" ELSE "save_finish"]

onSave_frame_chunks(m, body) ==
  onSave_frame_write(m, body, ClosedFrameHeader(m, body))

\* one turn of the frame loop of onSave
onSave_frame(m) == onSave_frame_chunks(m, FrameChunks(m.document, m.frame))

\* ase_file_write_header and the return of onSave
onSave_finish(m) ==
  [m EXCEPT !.header = [m.header EXCEPT !.size = m.cursor],
            !.file = WriteAt(m.file, 0,
                             ase_file_write_header(
                               [m.header EXCEPT !.size = m.cursor])),
            !.result = TRUE, !.pc = "saved",
            !.trace.origin = "save", !.trace.source = m.document]

(***************************************************************************)
(* Input files: byte streams a foreign writer may hand to onLoad.  Every   *)
(* file holds a palette, three layers (image A, folder B, image C inside   *)
(* B) and a raw cel on A, then the chunk under test, with `fill` unused    *)
(* bytes inside its declared size, then a follower chunk; later frames     *)
(* hold a linked cel and a compressed cel.                                 *)
(***************************************************************************)
MaxFrames == 2
MaxFill == 2

Filler(n) == [i \in 1..n |-> 7]

\* a chunk whose declared size covers body and fill bytes
InChunk(type, body, fill) ==
  fputl(ChunkHeaderSize + Len(body) + fill) \o fputw(type) \o body \o Filler(fill)

CelHead(layer_index, cel_type) ==
  fputw(layer_index) \o fputw(1) \o fputw(-1) \o fputc(200) \o fputw(cel_type)
  \o Zeros(7)

LayerBody(layer_type, level, name) ==
  fputw(0) \o fputw(layer_type) \o fputw(level) \o fputw(0) \o fputw(0)
  \o fputw(0) \o Zeros(4) \o ase_file_write_string(name)

GoodStream == deflate(<<5, 6>>)

Subjects ==
  {"unknown", "cel_good", "cel_bad_method", "cel_bad_check", "cel_short",
   "cel_long", "cel_raw", "cel_raw_over", "cel_nolayer", "cel_group",
   "cel_zero", "cel_badtype", "cel_link_none", "layer", "layer_over",
   "layer_deep", "layer_badtype", "color11", "color2", "color_ub", "mask",
   "path", "cel_bad_big", "color11_full", "color2_full", "color11_multi",
   "color2_multi", "color2_past"}

\* the body of the chunk under test: [type, body]
SubjectBody(v) ==
  CASE v = "unknown" ->
         [type |-> 8224, body |-> Zeros(16) \o ase_file_write_string(<<90>>)]
    [] v = "cel_good" ->
         [type |-> ASE_FILE_CHUNK_CEL,
          body |-> CelHead(2, 2) \o fputw(2) \o fputw(1) \o GoodStream]
    [] v = "cel_bad_method" ->
         [type |-> ASE_FILE_CHUNK_CEL,
          body |-> CelHead(2, 2) \o fputw(2) \o fputw(1)
                   \o [GoodStream EXCEPT ![1] = 121]]
    [] v = "cel_bad_check" ->
         [type |-> ASE_FILE_CHUNK_CEL,
          body |-> CelHead(2, 2) \o fputw(2) \o fputw(1)
                   \o [GoodStream EXCEPT ![Len(GoodStream)] = (@ + 1) % 256]]
    [] v = "cel_short" ->
         [type |-> ASE_FILE_CHUNK_CEL,
          body |-> CelHead(2, 2) \o fputw(2) \o fputw(1)
                   \o SubSeq(GoodStream, 1, 4)]
    [] v = "cel_long" ->
         [type |-> ASE_FILE_CHUNK_CEL,
          body |-> CelHead(2, 2) \o fputw(1) \o fputw(1) \o GoodStream]
    [] v = "cel_raw" ->
         [type |-> ASE_FILE_CHUNK_CEL,
          body |-> CelHead(2, 0) \o fputw(2) \o fputw(1) \o <<5, 6>>]
    [] v = "cel_raw_over" ->
         [type |-> ASE_FILE_CHUNK_CEL,
          body |-> CelHead(2, 0) \o fputw(2) \o fputw(4) \o <<5, 6>>]
    [] v = "cel_nolayer" ->
         [type |-> ASE_FILE_CHUNK_CEL,
          body |-> CelHead(9, 2) \o fputw(2) \o fputw(1) \o GoodStream]
    [] v = "cel_group" ->
         [type |-> ASE_FILE_CHUNK_CEL,
          body |-> CelHead(1, 2) \o fputw(2) \o fputw(1) \o GoodStream]
    [] v = "cel_zero" ->
         [type |-> ASE_FILE_CHUNK_CEL,
          body |-> CelHead(2, 2) \o fputw(0) \o fputw(0)]
    [] v = "cel_badtype" ->
         [type |-> ASE_FILE_CHUNK_CEL, body |-> CelHead(2, 9)]
    [] v = "cel_link_none" ->
         [type |-> ASE_FILE_CHUNK_CEL, body |-> CelHead(2, 1) \o fputw(7)]
    [] v = "layer" ->
         [type |-> ASE_FILE_CHUNK_LAYER, body |-> LayerBody(0, 0, <<69>>)]
    [] v = "layer_over" ->
         [type |-> ASE_FILE_CHUNK_LAYER,
          body |-> SubSeq(LayerBody(0, 0, <<>>), 1, 16) \o fputw(10)]
    [] v = "layer_deep" ->
         [type |-> ASE_FILE_CHUNK_LAYER, body |-> LayerBody(1, 5, <<70>>)]
    [] v = "layer_badtype" ->
         [type |-> ASE_FILE_CHUNK_LAYER, body |-> LayerBody(2, 0, <<71>>)]
    [] v = "color11" ->
         [type |-> ASE_FILE_CHUNK_FLI_COLOR,
          body |-> fputw(1) \o <<0, 2, 63, 0, 16, 1, 2, 3>>]
    [] v = "color2" ->
         [type |-> ASE_FILE_CHUNK_FLI_COLOR2,
          body |-> fputw(1) \o <<1, 1, 200, 100, 50>>]
    [] v = "color_ub" ->
         [type |-> ASE_FILE_CHUNK_FLI_COLOR2,
          body |-> fputw(1) \o <<1, 2, 9, 9, 9, 8, 8, 8>>]
    [] v = "mask" ->
         [type |-> ASE_FILE_CHUNK_MASK,
          body |-> fputw(0) \o fputw(0) \o fputw(9) \o fputw(1) \o Zeros(8)
                   \o ase_file_write_string(<<77>>) \o <<170, 128>>]
    [] v = "cel_bad_big" ->
         [type |-> ASE_FILE_CHUNK_CEL,
          body |-> CelHead(2, 2) \o fputw(2) \o fputw(1) \o <<121>>
                   \o Filler(CompressedBufferSize + 100)]
    [] v = "color11_full" ->
         [type |-> ASE_FILE_CHUNK_FLI_COLOR,
          body |-> fputw(1) \o <<0, 0>>
                   \o [i \in 1..(3 * PaletteFullSize) |-> (5 * i) % 64]]
    [] v = "color2_full" ->
         [type |-> ASE_FILE_CHUNK_FLI_COLOR2,
          body |-> fputw(1) \o <<0, 0>>
                   \o [i \in 1..(3 * PaletteFullSize) |-> (7 * i) % 256]]
    [] v = "color11_multi" ->
         [type |-> ASE_FILE_CHUNK_FLI_COLOR,
          body |-> fputw(3) \o <<1, 2, 1, 2, 3, 4, 5, 6>>
                   \o <<2, 1, 17, 18, 19>> \o <<0, 2, 32, 33, 34, 61, 62, 63>>]
    [] v = "color2_multi" ->
         [type |-> ASE_FILE_CHUNK_FLI_COLOR2,
          body |-> fputw(3) \o <<1, 2, 1, 2, 3, 4, 5, 6>>
                   \o <<2, 1, 70, 80, 90>> \o <<0, 2, 100, 110, 120, 201, 202, 203>>]
    [] v = "color2_past" ->
         [type |-> ASE_FILE_CHUNK_FLI_COLOR2,
          body |-> fputw(1) \o <<1, 0>>
                   \o [i \in 1..(3 * PaletteFullSize) |-> (3 * i) % 256]]
    [] OTHER -> [type |-> ASE_FILE_CHUNK_PATH, body |-> <<>>]

Followers == {"layer", "cel_raw", "color2"}

FollowerChunk(v) ==
  CASE v = "layer" ->
         InChunk(ASE_FILE_CHUNK_LAYER, LayerBody(0, 0, <<68>>), 0)
    [] v = "cel_raw" ->
         InChunk(ASE_FILE_CHUNK_CEL,
                 CelHead(0, 0) \o fputw(1) \o fputw(1) \o <<9>>, 0)
    [] v = "color2" ->
         InChunk(ASE_FILE_CHUNK_FLI_COLOR2,
                 fputw(1) \o <<0, 1, 11, 12, 13>>, 0)
    [] OTHER -> <<>>

BasePalette == <<<<10, 20, 30, 255>>, <<40, 50, 60, 255>>>>

BaseChunks ==
  ase_file_write_color2_chunk(BasePalette)
  \o InChunk(ASE_FILE_CHUNK_LAYER, LayerBody(0, 0, <<65>>), 0)
  \o InChunk(ASE_FILE_CHUNK_LAYER, LayerBody(1, 0, <<66>>), 0)
  \o InChunk(ASE_FILE_CHUNK_LAYER, LayerBody(0, 1, <<67>>), 0)
  \o InChunk(ASE_FILE_CHUNK_CEL,
             CelHead(0, 0) \o fputw(2) \o fputw(1) \o <<1, 2>>, 0)

\* frame fr >= 1: a cel linked to the cel of layer A in the frame before,
\* and a compressed cel on layer C
LaterChunks(fr) ==
  InChunk(ASE_FILE_CHUNK_CEL, CelHead(0, 1) \o fputw(fr - 1), 0)
  \o InChunk(ASE_FILE_CHUNK_CEL,
             CelHead(2, 2) \o fputw(2) \o fputw(1) \o deflate(<<3, fr>>), 0)

FrameBytes(magic, chunks, duration, body) ==
  ase_file_write_frame_header(
    [size |-> FrameHeaderSize + Len(body), magic |-> magic,
     chunks |-> chunks, duration |-> duration]) \o body

Padded(bytes, n) == bytes \o Zeros(n - Len(bytes))

HeaderBytes(size, magic, frames, depth, ncolors) ==
  Padded(ase_file_write_header(
           [size |-> size, magic |-> magic, frames |-> frames, width |-> 4,
            height |-> 4, depth |-> depth, speed |-> 100,
            transparent_index |-> 0, ncolors |-> ncolors]),
         HeaderSize)

\* d = [subject, fill, follower, frames, magic, frame_magic, depth, cut]
\* magic / frame_magic: the header magic and the magic of the last frame;
\* first_magic: the magic of the first frame when another follows;
\* cut: bytes missing at the end of the file
InSubject(sb, fill) == InChunk(sb.type, sb.body, fill)

FirstChunks(d) ==
  BaseChunks \o InSubject(SubjectBody(d.subject), d.fill)
  \o FollowerChunk(d.follower)

FrameOf(d, fr) ==
  FrameBytes(IF fr = d.frames - 1 THEN d.frame_magic
             ELSE IF fr = 0 THEN d.first_magic ELSE ASE_FILE_FRAME_MAGIC,
             IF fr = 0 THEN 6 + (IF d.follower \in Followers THEN 1 ELSE 0)
             ELSE 2,
             IF fr = 0 THEN 0 ELSE 50,
             IF fr = 0 THEN FirstChunks(d) ELSE LaterChunks(fr))

WithHeader(d, body) ==
  HeaderBytes(HeaderSize + Len(body), d.magic, d.frames, d.depth, d.ncolors)
  \o body

Truncated(all, cut) == SubSeq(all, 1, Len(all) - cut)

BuildFile(d) ==
  Truncated(WithHeader(d, Concat([i \in 1..d.frames |-> FrameOf(d, i - 1)])),
            d.cut)

Desc(subject, fill, follower, frames) ==
  [subject |-> subject, fill |-> fill, follower |-> follower,
   frames |-> frames, magic |-> ASE_FILE_MAGIC,
   frame_magic |-> ASE_FILE_FRAME_MAGIC, depth |-> 8, ncolors |-> 2,
   cut |-> 0, first_magic |-> ASE_FILE_FRAME_MAGIC]

Descs ==
  {Desc(s, 0, fo, 1) : s \in Subjects, fo \in Followers}
  \cup {Desc(s, MaxFill, "layer", 1) : s \in Subjects}
  \cup {Desc(s, 0, "cel_raw", n) :
          s \in {"unknown", "cel_good", "cel_bad_method", "cel_raw"},
          n \in 2..MaxFrames}
  \cup {[Desc("cel_good", 0, "layer", n) EXCEPT !.frame_magic = 0] :
          n \in 1..MaxFrames}
  \cup {[Desc("cel_good", 0, "layer", MaxFrames) EXCEPT !.first_magic = n] :
          n \in {0, ASE_FILE_MAGIC}}
  \cup {[Desc(s, 0, "color2", 1) EXCEPT !.ncolors = n] :
          s \in {"color11_full", "color2_full", "color2", "color11_multi",
                 "color2_multi", "color2_past"},
          n \in {0, PaletteFullSize}}
  \cup {[Desc("cel_good", 0, "layer", 1) EXCEPT !.magic = n] :
          n \in {0, ASE_FILE_MAGIC + 1, ASE_FILE_FRAME_MAGIC}}
  \cup {[Desc("cel_good", 0, "layer", 1) EXCEPT !.cut = 100000],
        [Desc("path", 0, "layer", 1) EXCEPT !.cut = 200],
        [Desc("color2", 0, "cel_raw", 1) EXCEPT !.depth = 16],
        [Desc("cel_good", 0, "none", 1) EXCEPT !.cut = 2],
        Desc("cel_good", -12, "layer", 1),
        Desc("unknown", -2147483600, "layer", 1),
        Desc("layer", -2147483600, "cel_raw", 1)}

ForeignFiles == {BuildFile(d) : d \in Descs}

(***************************************************************************)
(* Input documents: the sprites handed to onSave                           *)
(***************************************************************************)
MaxLayers == 4

RECURSIVE AncestorsOrSelf(_, _)
AncestorsOrSelf(ls, id) ==
  IF id = 0 THEN {0} ELSE {id} \cup AncestorsOrSelf(ls, ls[id].parent)

\* where the next layer of a tree listed in depth-first order can hang
OpenFolders(ls) ==
  IF ls = <<>> THEN {0}
  ELSE {a \in AncestorsOrSelf(ls, Len(ls)) : IsFolder(ls, a)}

Grow(T) ==
  UNION {{Append(ls, [type |-> t, name |-> <<64 + Len(ls) + 1>>, flags |-> 0,
                      parent |-> p]) :
            t \in {"image", "folder"}, p \in OpenFolders(ls)} : ls \in T}

RECURSIVE TreesOfSize(_)
TreesOfSize(n) == IF n = 0 THEN {<<>>} ELSE Grow(TreesOfSize(n - 1))

Trees == UNION {TreesOfSize(n) : n \in 1..MaxLayers}

ImageLayers(ls) ==
  SelectSeq([i \in 1..Len(ls) |-> i], LAMBDA i : ls[i].type = "image")

OtherPalette == <<<<10, 20, 30, 255>>, <<41, 51, 61, 255>>>>

\* an indexed sprite of nf frames over the tree ls with one cel per image
\* layer and frame; the palette changes at frame 1 when `changes`
SpriteOf(ls, nf, changes) ==
  LET il == ImageLayers(ls)
      K == Len(il)
      layerOf(k) == il[((k - 1) % K) + 1]
      frameOf(k) == (k - 1) \div K
  IN [sprite |-> [format |-> "INDEXED", width |-> 4, height |-> 4,
                  ncolors |-> 2, frames |-> nf, transparent |-> 0,
                  durations |-> [i \in 1..nf |-> 110 - 10 * i]],
      palettes |-> <<[frame |-> 0, colors |-> BasePalette]>>
                   \o (IF changes /\ nf > 1
                       THEN <<[frame |-> 1, colors |-> OtherPalette]>>
                       ELSE <<>>),
      layers |-> ls,
      cels |-> [k \in 1..(nf * K) |->
                  [layer |-> layerOf(k), frame |-> frameOf(k),
                   x |-> layerOf(k) - 2, y |-> frameOf(k),
                   opacity |-> 255 - frameOf(k), image |-> k]],
      stock |-> <<NullImage>>
                \o [k \in 1..(nf * K) |->
                      [w |-> 2, h |-> 1,
                       pixels |-> <<layerOf(k) + frameOf(k), 10 * frameOf(k) + 1>>]]]

\* the sprite doc in another pixel format: every pixel takes the bytes of
\* the format
InFormat(doc, format) ==
  [doc EXCEPT
     !.sprite.format = format,
     !.stock = [h \in 1..Len(doc.stock) |->
                  [doc.stock[h] EXCEPT
                     !.pixels =
                       [i \in 1..(Len(doc.stock[h].pixels) * BytesPerPixel(format)) |->
                          doc.stock[h].pixels[((i - 1) \div BytesPerPixel(format)) + 1]]]]]

\* the sprite doc with every cel at (x, y)
AtPosition(doc, x, y) ==
  [doc EXCEPT !.cels = [k \in 1..Len(doc.cels) |->
                          [doc.cels[k] EXCEPT !.x = x, !.y = y]]]

\* cel positions at the ends and in the middle of the range of a short
CelPositions == {-32768, -1, 0, 32767}

Sprites ==
  {SpriteOf(ls, nf, ch) : ls \in Trees, nf \in 1..MaxFrames, ch \in BOOLEAN}
  \cup {InFormat(SpriteOf(ls, nf, ch), format) :
          ls \in TreesOfSize(1) \cup TreesOfSize(2), nf \in 1..MaxFrames,
          ch \in BOOLEAN, format \in {"RGB", "GRAYSCALE"}}
  \cup {AtPosition(SpriteOf(ls, 1, FALSE), x, y) :
          ls \in TreesOfSize(1), x \in CelPositions, y \in CelPositions}

(***************************************************************************)
(* Actions                                                                 *)
(***************************************************************************)
InitFrom(m) ==
  /\ pc = m.pc /\ file = m.file /\ cursor = m.cursor
  /\ document = m.document /\ header = m.header
  /\ frame_header = m.frame_header /\ frame = m.frame
  /\ frame_pos = m.frame_pos /\ c = m.c /\ chunk_pos = m.chunk_pos
  /\ chunk_size = m.chunk_size /\ chunk_type = m.chunk_type
  /\ sprite = m.sprite /\ palettes = m.palettes /\ layers = m.layers
  /\ cels = m.cels /\ stock = m.stock /\ last_layer = m.last_layer
  /\ current_level = m.current_level /\ oneframe = m.oneframe
  /\ stop = m.stop /\ errors = m.errors /\ progress = m.progress
  /\ result = m.result /\ mask = m.mask /\ trace = m.trace

\* what an out-of-bounds read may find, and how undefined behaviour ends
Garbage == {0, 255}
Outcomes == {"continue", "crash"}

LoadHeader == pc \in {"load", "saved"} /\ Set(onLoad_header(M))

LoadFrameHeader == pc = "frame" /\ Set(onLoad_frame(M))

LoadChunkHeader == pc = "chunk" /\ Set(onLoad_chunk(M))

LoadColorChunk ==
  /\ pc = "dispatch"
  /\ ChunkHandler(chunk_type) \in {"color", "color2"}
  /\ \E garbage \in Garbage, outcome \in Outcomes :
       Set(onLoad_color(M, garbage, outcome))

LoadLayerChunk ==
  /\ pc = "dispatch"
  /\ ChunkHandler(chunk_type) = "layer"
  /\ \E outcome \in Outcomes : Set(onLoad_layer(M, outcome))

LoadCelChunk ==
  /\ pc = "dispatch"
  /\ ChunkHandler(chunk_type) = "cel"
  /\ \E outcome \in Outcomes : Set(onLoad_cel(M, outcome))

LoadMaskChunk ==
  pc = "dispatch" /\ ChunkHandler(chunk_type) = "mask" /\ Set(onLoad_mask(M))

LoadPathChunk ==
  pc = "dispatch" /\ ChunkHandler(chunk_type) = "path" /\ Set(onLoad_path(M))

LoadUnknownChunk ==
  pc = "dispatch" /\ ChunkHandler(chunk_type) = "default"
  /\ Set(onLoad_default(M))

LoadSkipChunk == pc = "skip" /\ Set(onLoad_skip_chunk(M))

LoadFrameEnd == pc = "frame_end" /\ Set(onLoad_frame_end(M))

LoadFinish == pc = "finish" /\ Set(onLoad_finish(M))

\* the user cancels the operation while onLoad runs
RequestStop ==
  /\ pc \in {"frame", "chunk", "dispatch", "skip", "frame_end"}
  /\ ~stop
  /\ Set([M EXCEPT !.stop = TRUE])

\* the loaded document is edited: a pixel of one cel's image is changed
EditImage ==
  /\ pc = "done" /\ result
  /\ \E i \in 1..Len(cels) :
       /\ cels[i].image # 0
       /\ getImage(stock, cels[i].image).pixels # <<>>
       /\ Set(PutPixel(M, i))

SaveBegin == pc = "save" /\ Set(onSave_begin(M))

SaveFrame == pc = "save_frame" /\ Set(onSave_frame(M))

SaveFinish == pc = "save_finish" /\ Set(onSave_finish(M))

(***************************************************************************)
(* Spec: onLoad on a foreign file                                          *)
(***************************************************************************)
Init ==
  \E d \in Descs, one \in BOOLEAN :
    InitFrom([Blank EXCEPT !.pc = "load", !.file = BuildFile(d),
                           !.oneframe = one, !.trace.origin = "foreign",
                           !.trace.input = d])

Next ==
  \/ LoadHeader \/ LoadFrameHeader \/ LoadChunkHeader
  \/ LoadColorChunk \/ LoadLayerChunk \/ LoadCelChunk \/ LoadMaskChunk
  \/ LoadPathChunk \/ LoadUnknownChunk
  \/ LoadSkipChunk \/ LoadFrameEnd \/ LoadFinish
  \/ RequestStop \/ EditImage

Spec == Init /\ [][Next]_vars

(***************************************************************************)
(* SpecSave: onSave of a document, then onLoad of the file it wrote        *)
(***************************************************************************)
InitSave ==
  \E doc \in Sprites : InitFrom([Blank EXCEPT !.pc = "save", !.document = doc])

NextSave ==
  \/ SaveBegin \/ SaveFrame \/ SaveFinish
  \/ LoadHeader \/ LoadFrameHeader \/ LoadChunkHeader
  \/ LoadColorChunk \/ LoadLayerChunk \/ LoadCelChunk
  \/ LoadSkipChunk \/ LoadFrameEnd \/ LoadFinish

SpecSave == InitSave /\ [][NextSave]_vars

(***************************************************************************)
(* SpecLayers: onLoad of a one-frame file that holds layer chunks only,    *)
(* of any kind and level                                                   *)
(***************************************************************************)
MaxRecords == 3
MaxLevel == 2

LayerRecords ==
  UNION {[1..n -> [type : {0, 1, 2}, level : 0..MaxLevel]] : n \in 1..MaxRecords}

LayerChunksOf(rs) ==
  Concat([i \in 1..Len(rs) |->
            InChunk(ASE_FILE_CHUNK_LAYER,
                    LayerBody(rs[i].type, rs[i].level, <<64 + i>>), 0)])

FramedLayers(n, body) ==
  HeaderBytes(HeaderSize + FrameHeaderSize + Len(body), ASE_FILE_MAGIC, 1, 8, 2)
  \o FrameBytes(ASE_FILE_FRAME_MAGIC, n, 0, body)

LayersFile(rs) == FramedLayers(Len(rs), LayerChunksOf(rs))

InitLayers ==
  \E rs \in LayerRecords :
    InitFrom([Blank EXCEPT !.pc = "load", !.file = LayersFile(rs),
                           !.trace.origin = "layers"])

NextLayers ==
  \/ LoadHeader \/ LoadFrameHeader \/ LoadChunkHeader \/ LoadLayerChunk
  \/ LoadSkipChunk \/ LoadFrameEnd \/ LoadFinish

SpecLayers == InitLayers /\ [][NextLayers]_vars

(***************************************************************************)
(* SpecMask: ase_file_write_mask_chunk on a mask, then                     *)
(* ase_file_read_mask_chunk on the chunk it wrote                          *)
(***************************************************************************)
MaxMaskWidth == 9
MaxMaskHeight == 2

\* masks with bounds at both sides of the origin, widths at both sides of a
\* byte, and bitmaps from all clear to all set
Masks ==
  {[x |-> x, y |-> y, w |-> w, h |-> h, name |-> name,
    bitmap |-> [v \in 1..h |-> [u \in 1..w |-> (u + s * v) % p = 0]]] :
     x \in {-1, 0, 3}, y \in {-2, 0, 5}, w \in 0..MaxMaskWidth,
     h \in 0..MaxMaskHeight, name \in {<<>>, <<77, 49>>},
     s \in {0, 1}, p \in {1, 2, 3, 100}}

\* the mask writer on the mask in hand, into an empty file
onWriteMask(m) ==
  [m EXCEPT !.file = ase_file_write_mask_chunk(m.mask),
            !.cursor = Len(ase_file_write_mask_chunk(m.mask)),
            !.trace.mask = m.mask, !.mask = NoMask, !.pc = "mask_written"]

\* the mask reader behind the chunk header
onReadMask(m) ==
  [m EXCEPT !.mask = ase_file_read_mask_chunk(m.file, ChunkHeaderSize).mask,
            !.cursor = ase_file_read_mask_chunk(m.file, ChunkHeaderSize).pos,
            !.pc = "mask_read"]

WriteMask == pc = "mask_write" /\ Set(onWriteMask(M))

ReadMask == pc = "mask_written" /\ Set(onReadMask(M))

InitMask ==
  \E m \in Masks :
    InitFrom([Blank EXCEPT !.pc = "mask_write", !.mask = m,
                           !.trace.origin = "mask"])

NextMask == WriteMask \/ ReadMask

SpecMask == InitMask /\ [][NextMask]_vars

(***************************************************************************)
(* Properties                                                              *)
(***************************************************************************)
Foreign == trace.origin = "foreign"

\* the state in which onLoad is entered on file f
Entered(f, one) == [Blank EXCEPT !.pc = "load", !.file = f, !.oneframe = one]

\* C1: whatever the handler of a chunk consumed, the next chunk header of
\* the frame is read at chunk_pos + chunk_size of the chunk just handled.
C1_NextHeaderAtDeclaredEnd ==
  [][(pc = "chunk" /\ pc' = "dispatch" /\ c > 0)
       => chunk_pos' = chunk_pos + chunk_size]_vars

\* the type codes onLoad has a case for
KnownChunkTypes ==
  {ASE_FILE_CHUNK_FLI_COLOR2, ASE_FILE_CHUNK_FLI_COLOR, ASE_FILE_CHUNK_LAYER,
   ASE_FILE_CHUNK_CEL, ASE_FILE_CHUNK_MASK, ASE_FILE_CHUNK_PATH}

\* C2: a chunk of unknown type changes neither the layer tree, the builder
\* state, the cels, the stock, the palettes nor the frame durations, from
\* its dispatch to the seek behind it, and the chunk loop goes on.
C2_UnknownChunkSkipped ==
  [][(pc \in {"dispatch", "skip"} /\ chunk_type \notin KnownChunkTypes)
       => /\ layers' = layers /\ last_layer' = last_layer
          /\ current_level' = current_level /\ cels' = cels
          /\ stock' = stock /\ palettes' = palettes
          /\ sprite'.durations = sprite.durations
          /\ pc = "dispatch" => pc' \in {"dispatch", "skip"}
          /\ pc = "skip" =>
               pc' \in {"skip", IF c + 1 < frame_header.chunks THEN "chunk"
                                ELSE "frame_end"}]_vars

\* an unknown chunk has been skipped in a document that holds layers and a
\* cel, and the next chunk header is about to be read
C2_Witness ==
  /\ pc = "chunk" /\ trace.note = "default"
  /\ chunk_type \notin KnownChunkTypes
  /\ Len(layers) > 0 /\ Len(cels) > 0 /\ c < frame_header.chunks

\* cel chunks whose compressed data is not a well-formed stream for the
\* declared pixels: a wrong method byte (short and longer than one buffer),
\* a wrong check byte, a stream that ends early
BadStreams == {"cel_bad_method", "cel_bad_check", "cel_short", "cel_bad_big"}

\* the document onLoad makes of the file that differs from d's only in
\* holding a well-formed stream in the cel chunk under test
WellFormedTwin(d, one) ==
  onLoad(Entered(BuildFile([d EXCEPT !.subject = "cel_good"]), one)).document

\* the image the cel chunk under test made: that of the cel of the layer
\* with index 2 in frame 0
SubjectImage(doc) ==
  doc.cels[getCel(doc.cels, indexToLayer(doc.layers, 2), 0)].image

WithoutPixelsOf(st, h) ==
  [i \in 1..Len(st) |-> IF i = h + 1 THEN [st[i] EXCEPT !.pixels = <<>>]
                        ELSE st[i]]

SameButPixelsOf(a, b, h) ==
  /\ a.sprite = b.sprite /\ a.palettes = b.palettes /\ a.layers = b.layers
  /\ a.cels = b.cels
  /\ WithoutPixelsOf(a.stock, h) = WithoutPixelsOf(b.stock, h)

\* C3: after a compressed cel whose stream is malformed or ends early the
\* next chunk header is read at the declared end of the cel chunk, the
\* load is not given up, and the document it ends with is the one the file
\* with a well-formed cel gives, but for the pixels of that cel.
C3_BadStreamLeavesFollower ==
  [][(Foreign /\ trace.input.subject \in BadStreams /\ ~stop')
       => /\ (pc = "chunk" /\ pc' = "dispatch" /\ c > 0
                /\ chunk_type = ASE_FILE_CHUNK_CEL)
               => chunk_pos' = chunk_pos + chunk_size
          /\ pc' \notin {"crashed", "hung", "aborted"}
          /\ (pc = "finish" /\ pc' = "done")
               => SameButPixelsOf(document',
                                  WellFormedTwin(trace.input, oneframe),
                                  SubjectImage(document'))]_vars

\* a load is over in which a cel with a malformed stream longer than one
\* read buffer was reported and the cel chunk after it made its cel
C3_Witness ==
  /\ Foreign /\ pc = "done" /\ result /\ ~stop
  /\ trace.input.subject = "cel_bad_big" /\ trace.input.follower = "cel_raw"
  /\ errors # <<>> /\ Len(document.cels) = 3
  /\ getImage(document.stock, document.cels[3].image).pixels = <<9>>

\* C4: on a file whose header magic is not 0xA5E0 onLoad reports the
\* header error and returns false, with no sprite and no document made and
\* nothing read behind the magic word.
C4_BadMagicRejected ==
  (Foreign /\ pc # "load" /\ fgetw(file, 4) # ASE_FILE_MAGIC)
    => /\ pc = "done" /\ ~result
       /\ sprite = NoSprite /\ document = NoDocument
       /\ frame_header = NoFrameHeader /\ chunk_type = 0 /\ cursor <= 6
       /\ layers = <<>> /\ cels = <<>> /\ stock = <<>> /\ palettes = <<>>
       /\ errors = <<"Error reading header">>

\* onLoad has returned false on a complete file whose magic is off by one
C4_Witness ==
  /\ Foreign /\ pc = "done" /\ ~result
  /\ Len(file) > HeaderSize /\ fgetw(file, 4) = ASE_FILE_MAGIC + 1
  /\ errors = <<"Error reading header">>

Saved == trace.origin = "save"

\* the same layers in the same order, with the same names and the same
\* parent each (layers are numbered in the order of the file, which is
\* the depth-first order of the saved tree)
SameLayerTree(a, b) ==
  /\ Len(a) = Len(b)
  /\ \A i \in 1..Len(a) :
       /\ a[i].name = b[i].name /\ a[i].type = b[i].type
       /\ a[i].parent = b[i].parent

\* the image of the cel of a layer at a frame, the NULL image when the
\* layer has no cel there
CelImage(doc, layer, fr) ==
  IF getCel(doc.cels, layer, fr) = 0 THEN NullImage
  ELSE getImage(doc.stock, doc.cels[getCel(doc.cels, layer, fr)].image)

SameCelPixels(a, b) ==
  \A layer \in 1..Len(b.layers), fr \in 0..(b.sprite.frames - 1) :
    CelImage(a, layer, fr) = CelImage(b, layer, fr)

\* C5: the document onLoad makes of the file onSave wrote for an indexed
\* sprite has the cel pixels, the layer names, order and nesting, and the
\* palette of every frame of the sprite that was saved.
C5_RoundTrip ==
  (Saved /\ pc = "done")
    => /\ result
       /\ SameLayerTree(document.layers, trace.source.layers)
       /\ SameCelPixels(document, trace.source)
       /\ document.palettes = trace.source.palettes

RECURSIVE Level(_, _)
Level(ls, id) == IF ls[id].parent = 0 THEN 1 ELSE 1 + Level(ls, ls[id].parent)

\* the nesting depth of a layer tree: 1 when every layer is at top level
Depth(ls) == Max(0, CHOOSE n \in 0..Len(ls) :
                      /\ \A i \in 1..Len(ls) : Level(ls, i) <= n
                      /\ n = 0 \/ \E i \in 1..Len(ls) : Level(ls, i) = n)

\* C6: the layer chunks ase_file_write_layers wrote for a tree of nesting
\* depth 3 or less give, read back chunk by chunk, layers with the parent
\* and the place among their siblings they had in the tree.
C6_LayerTreeRoundTrip ==
  (Saved /\ pc \in {"frame_end", "done"} /\ frame = 0
     /\ Depth(trace.source.layers) <= 3)
    => /\ Len(layers) = Len(trace.source.layers)
       /\ \A i \in 1..Len(layers) :
            /\ layers[i].parent = trace.source.layers[i].parent
            /\ Children(layers, i) = Children(trace.source.layers, i)
       /\ Children(layers, 0) = Children(trace.source.layers, 0)

\* C7: the cel a linked cel chunk makes holds an image of its own, added
\* to the stock as a copy of the image of the cel it is linked to, and a
\* later change of that image leaves the image of the source cel as it was.
C7_LinkedCelOwnsCopy ==
  [][\A k \in 1..Len(trace'.links) :
       /\ cels'[trace'.links[k][1]].image # cels'[trace'.links[k][2]].image
       /\ (pc = "dispatch" /\ k > Len(trace.links))
            => /\ cels'[trace'.links[k][1]].image = Len(stock)
               /\ stock' = Append(stock,
                                  getImage(stock, cels[trace'.links[k][2]].image))
       /\ (pc = "done" /\ pc' = "edited"
             /\ trace'.edited = trace'.links[k][1])
            => /\ getImage(stock', cels[trace'.links[k][2]].image)
                    = getImage(stock, cels[trace'.links[k][2]].image)
               /\ getImage(stock', cels[trace'.links[k][1]].image)
                    # getImage(stock, cels[trace'.links[k][1]].image)]_vars

\* the image of a cel made from a linked cel chunk has been edited, and
\* now differs from the image of the cel it was copied from
C7_Witness ==
  /\ pc = "edited" /\ trace.links # <<>>
  /\ trace.edited = trace.links[1][1]
  /\ getImage(stock, cels[trace.links[1][1]].image).pixels
       # getImage(stock, cels[trace.links[1][2]].image).pixels
  /\ getImage(stock, cels[trace.links[1][2]].image).pixels = <<1, 2>>

\* the layer the cel chunk at the cursor names
CelTarget == indexToLayer(layers, fgetw(file, cursor))

\* C8: a cel chunk whose layer index names no layer, or a layer that holds
\* no images, adds no cel and no image, reports one warning, and leaves
\* onLoad in the chunk loop.
C8_CelWithoutImageLayer ==
  [][(pc = "dispatch" /\ pc' # "dispatch"
        /\ chunk_type = ASE_FILE_CHUNK_CEL
        /\ (CelTarget = NULL \/ ~IsImage(layers, CelTarget)))
       => /\ cels' = cels /\ stock' = stock
          /\ Len(errors') = Len(errors) + 1
          /\ pc' = "skip"]_vars

\* a cel chunk that names the folder B has been handled: one warning, and
\* the cel of the base chunks is still the only one
C8_Witness ==
  /\ Foreign /\ pc = "skip" /\ trace.note = "cel"
  /\ trace.input.subject = "cel_group" /\ c = 5
  /\ errors = <<"layer does not contain images">>
  /\ Len(cels) = 1 /\ Len(stock) = 2

\* what read_compressed_image does on the compressed cel chunk at the
\* cursor, when called on its own
CompressedRead ==
  read_compressed_image(file, cursor + 20, chunk_pos + chunk_size,
                        sprite.format, fgetw(file, cursor + 16),
                        fgetw(file, cursor + 18))

\* C9: when read_compressed_image throws, the message is reported, the
\* cel is added with an image of the declared width and height, and onLoad
\* stays in the chunk loop.
C9_ExceptionCaught ==
  [][(pc = "dispatch" /\ pc' # "dispatch"
        /\ chunk_type = ASE_FILE_CHUNK_CEL
        /\ CelTarget # NULL /\ IsImage(layers, CelTarget)
        /\ fgetw(file, cursor + 7) = ASE_FILE_COMPRESSED_CEL
        /\ fgetw(file, cursor + 16) > 0 /\ fgetw(file, cursor + 18) > 0
        /\ CompressedRead.status = "exception")
       => /\ pc' = "skip"
          /\ errors' = Append(errors, CompressedRead.what)
          /\ Len(cels') = Len(cels) + 1 /\ Len(stock') = Len(stock) + 1
          /\ cels'[Len(cels')].layer = CelTarget
          /\ cels'[Len(cels')].image = Len(stock)
          /\ stock'[Len(stock')].w = fgetw(file, cursor + 16)
          /\ stock'[Len(stock')].h = fgetw(file, cursor + 18)
          /\ SubSeq(stock', 1, Len(stock)) = stock]_vars

\* the inflate error of a 2x1 cel has been reported and the cel is in the
\* layer with its image
C9_Witness ==
  /\ Foreign /\ pc = "skip" /\ trace.note = "cel"
  /\ trace.input.subject = "cel_bad_method" /\ c = 5
  /\ errors = <<"ZLib error in inflate().">>
  /\ Len(cels) = 2 /\ getImage(stock, cels[2].image).w = 2
  /\ getImage(stock, cels[2].image).h = 1

\* the colour the k-th triple behind the packet head at the cursor stands
\* for, in the decoder of the chunk type
PacketColor(k) ==
  IF chunk_type = ASE_FILE_CHUNK_FLI_COLOR
  THEN <<rgb_scale_6(fgetc(file, cursor + 4 + 3 * k), 0),
         rgb_scale_6(fgetc(file, cursor + 5 + 3 * k), 0),
         rgb_scale_6(fgetc(file, cursor + 6 + 3 * k), 0), 255>>
  ELSE <<fgetc(file, cursor + 4 + 3 * k), fgetc(file, cursor + 5 + 3 * k),
         fgetc(file, cursor + 6 + 3 * k), 255>>

\* C10: in both palette decoders one packet with skip 0 and size 0 sets
\* the entries 0..255, each once and in this order, from 256 RGB triples,
\* and leaves the cursor behind the last of them.
C10_SizeZeroIs256 ==
  [][(pc = "dispatch" /\ pc' = "skip"
        /\ chunk_type \in {ASE_FILE_CHUNK_FLI_COLOR, ASE_FILE_CHUNK_FLI_COLOR2}
        /\ sprite.format = "INDEXED"
        /\ fgetw(file, cursor) = 1
        /\ fgetc(file, cursor + 2) = 0 /\ fgetc(file, cursor + 3) = 0)
       => /\ trace'.writes = [i \in 1..PaletteFullSize |-> i - 1]
          /\ trace'.handler_end = cursor + 4 + 3 * PaletteFullSize
          /\ \A i \in 1..Len(getPalette(palettes', frame).colors) :
               getPalette(palettes', frame).colors[i] = PacketColor(i - 1)]_vars

\* the FLI_COLOR decoder has handled such a packet on a palette of 256
\* colours
C10_Witness ==
  /\ Foreign /\ pc = "skip" /\ trace.note = "color" /\ c = 5
  /\ chunk_type = ASE_FILE_CHUNK_FLI_COLOR
  /\ Len(trace.writes) = PaletteFullSize
  /\ Len(getPalette(palettes, frame).colors) = PaletteFullSize
  /\ getPalette(palettes, frame).colors[PaletteFullSize] = <<219, 239, 0, 255>>

\* the palette count as the header of the file stores it
StoredColors == U16(fgetw(file, 32))

\* C11: a header with a stored palette count of 0 is read as ncolors = 256
\* and any other count is kept; the sprite gets a palette of ncolors
\* entries, and with depth 8 it is an indexed sprite.
C11_ZeroColorsIs256 ==
  [][(pc = "load" /\ pc' \notin {"load", "done"})
       => /\ header'.ncolors = IF StoredColors = 0 THEN PaletteFullSize
                                ELSE StoredColors
          /\ sprite'.ncolors = header'.ncolors
          /\ Len(palettes') = 1
          /\ Len(palettes'[1].colors) = header'.ncolors
          /\ header'.depth = 8 => sprite'.format = "INDEXED"]_vars

\* the header of a file of depth 8 that stores a count of 0 has been read:
\* the sprite is indexed and its palette has 256 entries
C11_Witness ==
  /\ Foreign /\ pc = "frame" /\ frame = 0 /\ StoredColors = 0
  /\ header.depth = 8 /\ header.ncolors = PaletteFullSize
  /\ sprite.format = "INDEXED"
  /\ Len(palettes[1].colors) = PaletteFullSize

\* the fields of the layer record at the cursor, and whether the layer
\* step to the next state has added a layer for it
RecordType == fgetw(file, cursor + 2)
RecordLevel == fgetw(file, cursor + 4)
LayerAdded ==
  /\ pc = "dispatch" /\ chunk_type = ASE_FILE_CHUNK_LAYER /\ pc' = "skip"
  /\ Len(layers') = Len(layers) + 1

\* the layer reached from id by n parent links, NULL above the root
RECURSIVE Ancestor(_, _, _)
Ancestor(ls, id, n) ==
  IF n = 0 \/ id = NULL THEN id ELSE Ancestor(ls, Parent(ls, id), n - 1)

\* C12: a layer record whose level L is lower than the level of the layer
\* before it is added, for a drop of any size, next to the ancestor of
\* that layer found current_level - L links up, so that its depth is L.
C12_DropOfAnySize ==
  [][(LayerAdded /\ RecordLevel < current_level)
       => /\ ChildLevel(layers', Len(layers')) = RecordLevel
          /\ layers'[Len(layers')].parent
               = Parent(layers, Ancestor(layers, last_layer,
                                         current_level - RecordLevel))]_vars

\* C13: whenever a layer record with a level above current_level makes
\* a layer, the layer it is added to, previous_layer, is a folder (or the
\* root) and never an image layer.
C13_ChildOnlyOfFolder ==
  [][(pc = "dispatch" /\ chunk_type = ASE_FILE_CHUNK_LAYER
        /\ pc' # "dispatch" /\ RecordType \in {0, 1}
        /\ RecordLevel > current_level)
       => IsFolder(layers, last_layer)]_vars

\* C14: after any sequence of layer chunks every layer has one parent
\* that exists and is the root or a folder reachable from the root, no
\* layer was left without a target to be added to, and no layer is its
\* own ancestor.
C14_TreeWellFormed ==
  /\ pc # "crashed"
  /\ \A i \in 1..Len(layers) :
       /\ layers[i].parent \in 0..Len(layers)
       /\ layers[i].parent # i
       /\ IsFolder(layers, layers[i].parent)
       /\ 0 \in AncestorsOrSelf(layers, i)
       /\ i \notin AncestorsOrSelf(layers, layers[i].parent)

\* the magic of the frame header last read is not that of a frame
BadFrame(fh) == fh.magic # ASE_FILE_FRAME_MAGIC

SpriteUnchanged ==
  /\ layers' = layers /\ last_layer' = last_layer
  /\ current_level' = current_level /\ cels' = cels /\ stock' = stock
  /\ palettes' = palettes /\ sprite' = sprite

\* C15: for a frame whose magic is not 0xF1FA no chunk is dispatched and
\* layers, cels, palettes and durations stay as they are; the cursor goes
\* to frame_pos plus the declared size of the frame, and the next frame
\* header is read there.
C15_BadFrameSkipped ==
  [][/\ (pc = "frame" /\ pc' # "frame" /\ BadFrame(frame_header'))
          => pc' = "frame_end" /\ SpriteUnchanged
     /\ (pc = "frame_end" /\ pc' # "frame_end" /\ BadFrame(frame_header))
          => /\ cursor' = frame_pos + frame_header.size
             /\ SpriteUnchanged
             /\ pc' \in {"frame", "finish"}
     /\ (pc = "frame" /\ pc' # "frame" /\ frame > 0
           /\ BadFrame(frame_header))
          => frame_pos' = frame_pos + frame_header.size]_vars

\* the frame behind a frame with a wrong magic is being read: its header
\* was found, and the sprite has nothing of the first frame
C15_Witness ==
  /\ Foreign /\ pc = "chunk" /\ frame = 1
  /\ trace.input.first_magic = 0
  /\ frame_header.magic = ASE_FILE_FRAME_MAGIC
  /\ frame_pos = HeaderSize + fgetl(file, HeaderSize)
  /\ layers = <<>> /\ cels = <<>> /\ Len(palettes) = 1

\* C16: the cancellation flag is looked at only at the end of a frame,
\* behind the seek to the frame's end: while it is set the chunks of the
\* frame are handled as ever, at the end of the frame the loop is left,
\* and from then on no frame header and no chunk is read.
C16_StopAtFrameEnd ==
  [][/\ (stop /\ pc \in {"frame", "chunk", "dispatch", "skip"} /\ pc' # pc)
          => /\ pc' \notin {"finish", "done"}
             /\ pc = "chunk" => pc' = "dispatch"
             /\ pc = "skip" =>
                  pc' = IF c + 1 < frame_header.chunks THEN "chunk"
                        ELSE "frame_end"
     /\ (stop /\ pc = "frame_end" /\ pc' # pc)
          => /\ pc' = "finish"
             /\ cursor' = frame_pos + frame_header.size
     /\ (~stop /\ ~oneframe /\ pc = "frame_end" /\ pc' # pc
           /\ frame + 1 < sprite.frames)
          => pc' = "frame"
     /\ (stop /\ pc = "finish")
          => /\ pc' = "done" /\ cursor' = cursor /\ progress' = progress
             /\ frame_header' = frame_header /\ chunk_pos' = chunk_pos]_vars

\* a load of a file of two frames has ended behind the first frame with
\* the flag set, and every chunk of that frame was handled
C16_Witness ==
  /\ Foreign /\ pc = "done" /\ result /\ stop /\ ~oneframe
  /\ header.frames = 2 /\ frame = 0 /\ c = frame_header.chunks
  /\ trace.input.subject = "cel_raw" /\ Len(cels) = 3

\* C17: the values handed to fop_progress during one onLoad, cursor
\* offsets over the declared size of the file, never go down, whatever
\* the declared chunk and frame sizes of the file are.
C17_ProgressMonotone ==
  (pc # "saved" /\ header.size > 0)
    => \A i \in 1..(Len(progress) - 1) : progress[i] <= progress[i + 1]


\* C18: when the file ends before the declared end of a compressed cel
\* chunk, the block loop of read_compressed_image comes to an end and onLoad
\* goes on to its return: the step of the cel chunk never leaves onLoad
\* inside the loop.
C18_TruncatedCelTerminates ==
  [][(pc = "dispatch" /\ pc' # "dispatch"
        /\ chunk_type = ASE_FILE_CHUNK_CEL
        /\ CelTarget # NULL /\ IsImage(layers, CelTarget)
        /\ fgetw(file, cursor + 7) = ASE_FILE_COMPRESSED_CEL
        /\ fgetw(file, cursor + 16) > 0 /\ fgetw(file, cursor + 18) > 0
        /\ chunk_size > 0 /\ Len(file) < chunk_pos + chunk_size
        /\ Len(file) >= cursor + 20)
       => pc' # "hung"]_vars

\* the offsets a reader meets between pos and end when it skips by the
\* length field at each offset (no field may be below `least`), followed by
\* the offset it ends on
RECURSIVE Extents(_, _, _, _, _)
Extents(f, pos, end, least, acc) ==
  IF pos >= end \/ pos + least > Len(f) THEN Append(acc, pos)
  ELSE IF fgetl(f, pos) < least THEN Append(acc, -1)
  ELSE Extents(f, pos + fgetl(f, pos), end, least, Append(acc, pos))

\* the chunks onSave starts in frame fr of doc: the palette when it
\* changes, every layer in the first frame, every cel of the frame
StartedChunks(doc, fr) ==
  (IF PaletteChanges(doc, fr) THEN 1 ELSE 0)
  + (IF fr = 0 THEN Len(doc.layers) ELSE 0)
  + Cardinality({k \in 1..Len(doc.cels) : doc.cels[k].frame = fr})

\* starts: the chunk starts met from behind the frame header at `at`,
\* followed by the offset the walk ends on
FrameExtent(f, doc, at, fr, starts) ==
  /\ fgetw(f, at + 4) = ASE_FILE_FRAME_MAGIC
  /\ starts[Len(starts)] = at + fgetl(f, at)
  /\ fgetw(f, at + 6) = Len(starts) - 1
  /\ Len(starts) - 1 = StartedChunks(doc, fr)
  /\ fgetl(f, at) - FrameHeaderSize
       = Sum([i \in 1..(Len(starts) - 1) |-> fgetl(f, starts[i])])
  /\ \A i \in 1..(Len(starts) - 1) :
       fgetw(f, starts[i] + 4) \in
         {ASE_FILE_CHUNK_FLI_COLOR2, ASE_FILE_CHUNK_LAYER, ASE_FILE_CHUNK_CEL}

\* starts: the frame starts met from behind the file header, followed by
\* the offset the walk ends on
FileExtent(f, doc, starts) ==
  /\ fgetl(f, 0) = Len(f)
  /\ starts[Len(starts)] = Len(f)
  /\ Len(starts) - 1 = doc.sprite.frames
  /\ fgetl(f, 0) - HeaderSize
       = Sum([i \in 1..(Len(starts) - 1) |-> fgetl(f, starts[i])])
  /\ \A i \in 1..(Len(starts) - 1) :
       FrameExtent(f, doc, starts[i], i - 1,
                   Extents(f, starts[i] + FrameHeaderSize,
                           starts[i] + fgetl(f, starts[i]),
                           ChunkHeaderSize, <<>>))

\* C19: in the file onSave has written every length field is the byte
\* extent of what it describes: skipping by the declared sizes from the
\* end of the file header meets exactly the frames of the sprite and ends
\* on the end of the file, which the header's size names; skipping by the
\* declared sizes inside a frame meets exactly the chunks started in it,
\* as many as its chunk count says, and ends on the frame's end; each size
\* is the header's own bytes plus the sizes of what lies inside.
C19_LengthsAreExtents ==
  pc = "saved"
    => FileExtent(file, document,
                  Extents(file, HeaderSize, Len(file), FrameHeaderSize, <<>>))

\* a file of two frames has been written whose first frame holds a
\* palette, four layers and at least one cel
C19_Witness ==
  /\ pc = "saved" /\ document.sprite.frames = 2
  /\ fgetw(file, HeaderSize + 6) >= 6
  /\ Len(document.layers) = 4 /\ Len(document.palettes) = 2
  /\ fgetl(file, 0) = Len(file)
  /\ fgetw(file, HeaderSize + fgetl(file, HeaderSize) + 6) >= 2

\* the size byte of the packet whose head is at offset at
SizeAt(f, at) == IF fgetc(f, at + 1) = 0 THEN PaletteFullSize ELSE fgetc(f, at + 1)

\* the offsets of the heads of the first n packets from offset at on,
\* followed by the offset behind the last of them
RECURSIVE PacketHeads(_, _, _, _)
PacketHeads(f, at, n, acc) ==
  IF n = 0 THEN Append(acc, at)
  ELSE PacketHeads(f, at + 2 + 3 * SizeAt(f, at), n - 1, Append(acc, at))

\* S_k: the skip bytes of the packets 1..k added up
RunningIndex(f, heads, k) == Sum([j \in 1..k |-> fgetc(f, heads[j])])

\* the packets among 1..n that write entry i
WritersOf(f, heads, n, i) ==
  {k \in 1..n : /\ RunningIndex(f, heads, k) <= i
                /\ i < RunningIndex(f, heads, k) + SizeAt(f, heads[k])}

\* the last of a set of packets
LastOf(ks) == CHOOSE k \in ks : \A j \in ks : j <= k

\* the three bytes packet k holds for entry i
TripleOf(f, heads, k, i) ==
  [j \in 1..3 |->
     fgetc(f, heads[k] + 2 + 3 * (i - RunningIndex(f, heads, k)) + j - 1)]

\* entry i of the palette after the chunk, from the three bytes t of the
\* last packet that writes it
Decoded(t, scaled, entry) ==
  /\ entry[4] = 255
  /\ ~scaled => <<entry[1], entry[2], entry[3]>> = t
  /\ (scaled /\ \A j \in 1..3 : t[j] < 64)
       => \A j \in 1..3 : entry[j] = 4 * t[j] + (t[j] \div 16)

\* new is the palette old after the n packets with the heads given
PacketsDecoded(f, heads, n, scaled, old, new, writes) ==
  /\ writes = Concat([k \in 1..n |->
                        [j \in 1..SizeAt(f, heads[k]) |->
                           RunningIndex(f, heads, k) + j - 1]])
  /\ Len(new) = Len(old)
  /\ \A i \in 0..(Len(old) - 1) :
       IF WritersOf(f, heads, n, i) = {}
       THEN new[i + 1] = old[i + 1]
       ELSE Decoded(TripleOf(f, heads, LastOf(WritersOf(f, heads, n, i)), i),
                    scaled, new[i + 1])

\* C20: in both palette decoders, whatever the number of packets, packet
\* k sets the entries S_k .. S_k + size_k - 1 in this order, S_k being the
\* skip bytes of the packets 1..k added up and a size byte of 0 standing
\* for 256; each entry set has the colour of its three bytes with alpha
\* 255, and every other entry is the one of the sprite's palette at the
\* frame.
C20_RunningIndex ==
  [][(pc = "dispatch" /\ pc' = "skip"
        /\ chunk_type \in {ASE_FILE_CHUNK_FLI_COLOR, ASE_FILE_CHUNK_FLI_COLOR2}
        /\ sprite.format = "INDEXED"
        /\ trace'.handler_end <= Len(file))
       => PacketsDecoded(file,
                         PacketHeads(file, cursor + 2, fgetw(file, cursor), <<>>),
                         fgetw(file, cursor),
                         chunk_type = ASE_FILE_CHUNK_FLI_COLOR,
                         getPalette(palettes, frame).colors,
                         getPalette(palettes', frame).colors,
                         trace'.writes)]_vars

\* the FLI_COLOR decoder has handled three packets with the skip bytes 1,
\* 2 and 0 and the sizes 2, 1 and 2 on a palette of 256 colours: entry 3
\* is the third packet's, entry 5 is untouched
C20_Witness ==
  /\ Foreign /\ pc = "skip" /\ trace.note = "color" /\ c = 5
  /\ chunk_type = ASE_FILE_CHUNK_FLI_COLOR
  /\ trace.input.subject = "color11_multi"
  /\ trace.writes = <<1, 2, 3, 3, 4>>
  /\ Len(getPalette(palettes, frame).colors) = PaletteFullSize
  /\ getPalette(palettes, frame).colors[4] = <<130, 134, 138, 255>>
  /\ getPalette(palettes, frame).colors[5] = <<247, 251, 255, 255>>
  /\ getPalette(palettes, frame).colors[6] = <<0, 0, 0, 255>>

\* starts: the chunk starts of one frame followed by the frame's end
HasPaletteChunk(f, starts) ==
  \E i \in 1..(Len(starts) - 1) :
    fgetw(f, starts[i] + 4) \in
      {ASE_FILE_CHUNK_FLI_COLOR, ASE_FILE_CHUNK_FLI_COLOR2}

\* the palette in force at frame fr is not the one in force at fr - 1
PaletteDiffers(doc, fr) ==
  getPalette(doc.palettes, fr).colors # getPalette(doc.palettes, fr - 1).colors

\* starts: the frame starts of the file followed by its end
PaletteChunkIffChanged(f, doc, starts) ==
  \A i \in 1..(Len(starts) - 1) :
    HasPaletteChunk(f, Extents(f, starts[i] + FrameHeaderSize,
                               starts[i] + fgetl(f, starts[i]),
                               ChunkHeaderSize, <<>>))
      <=> (doc.sprite.format = "INDEXED"
             /\ (i = 1 \/ PaletteDiffers(doc, i - 1)))

\* C21: the file onSave has written holds a palette chunk in frame f
\* exactly when the sprite is indexed and f is 0 or the palette of frame f
\* differs from the palette of frame f - 1; the file of a sprite that is
\* not indexed holds no palette chunk.
C21_PaletteChunkIffChanged ==
  pc = "saved"
    => PaletteChunkIffChanged(file, document,
                              Extents(file, HeaderSize, Len(file),
                                      FrameHeaderSize, <<>>))

\* an RGB sprite of two frames whose palette changes at frame 1 has been
\* written: the first chunk of the file is a layer chunk
C21_Witness ==
  /\ pc = "saved" /\ document.sprite.format = "RGB"
  /\ document.sprite.frames = 2 /\ PaletteDiffers(document, 1)
  /\ fgetw(file, HeaderSize + FrameHeaderSize + 4) = ASE_FILE_CHUNK_LAYER

\* a size_t block request as a number: a wrapped difference is a request
\* for more bytes than any file holds
RequestSize(n) == IF n < 0 THEN 2147483647 ELSE n

\* the block reads of read_compressed_image entered at pos, as pairs of
\* cursor and requested bytes, up to the first read that gets nothing
RECURSIVE BlockRequests(_, _, _, _)
BlockRequests(f, pos, chunk_end, acc) ==
  IF input_bytes(pos, chunk_end) = 0 THEN acc
  ELSE IF input_bytes(pos, chunk_end) < 0 \/ bytes_read(f, pos, chunk_end) = 0
  THEN Append(acc, <<pos, RequestSize(input_bytes(pos, chunk_end))>>)
  ELSE BlockRequests(f, pos + bytes_read(f, pos, chunk_end), chunk_end,
                     Append(acc, <<pos, input_bytes(pos, chunk_end)>>))

RequestsBounded(requests, chunk_end) ==
  \A i \in 1..Len(requests) :
    /\ requests[i][2] <= CompressedBufferSize
    /\ requests[i][1] + requests[i][2] <= chunk_end

\* C22: whatever the declared end of a compressed cel chunk and the cursor
\* on entry are, each block read of read_compressed_image asks for at most
\* the 4096 bytes of the input buffer and for no byte behind the declared
\* end of the chunk.
C22_BlockRequestsBounded ==
  [][(pc = "dispatch" /\ pc' # "dispatch"
        /\ chunk_type = ASE_FILE_CHUNK_CEL
        /\ CelTarget # NULL /\ IsImage(layers, CelTarget)
        /\ fgetw(file, cursor + 7) = ASE_FILE_COMPRESSED_CEL
        /\ fgetw(file, cursor + 16) > 0 /\ fgetw(file, cursor + 18) > 0)
       => RequestsBounded(BlockRequests(file, cursor + 20,
                                        AsSizeT(chunk_pos + chunk_size), <<>>),
                          AsSizeT(chunk_pos + chunk_size))]_vars

\* the bytes of the compressed cel chunk at the cursor behind its fixed
\* fields, up to its declared end
CelStream == SubSeq(file, cursor + 21, chunk_pos + chunk_size)

\* height x rowSize of the cel chunk at the cursor
FlatBufferSize ==
  fgetw(file, cursor + 18) * scanline_size(sprite.format, fgetw(file, cursor + 16))

\* C23: read_compressed_image never holds more decoded bytes than height x
\* rowSize: when the stream of a compressed cel chunk yields more, the
\* error "Bad compressed image." is reported and no decoded byte reaches
\* the image, whose pixels stay as allocated; whenever the reader returns,
\* the image holds height x rowSize bytes.
C23_FlatBufferBounded ==
  [][(pc = "dispatch" /\ pc' # "dispatch"
        /\ chunk_type = ASE_FILE_CHUNK_CEL
        /\ CelTarget # NULL /\ IsImage(layers, CelTarget)
        /\ fgetw(file, cursor + 7) = ASE_FILE_COMPRESSED_CEL
        /\ fgetw(file, cursor + 16) > 0 /\ fgetw(file, cursor + 18) > 0
        /\ cursor + 20 <= chunk_pos + chunk_size
        /\ chunk_pos + chunk_size <= Len(file))
       => /\ Len(inflate(CelStream).out) > FlatBufferSize
               => /\ pc' = "skip"
                  /\ errors' = Append(errors, "Bad compressed image.")
                  /\ Len(stock') = Len(stock) + 1
                  /\ stock'[Len(stock')].pixels
                       = [i \in 1..FlatBufferSize |-> UNINIT]
          /\ (pc' = "skip" /\ Len(inflate(CelStream).out) <= FlatBufferSize
                /\ errors' = errors)
               => /\ Len(stock') = Len(stock) + 1
                  /\ stock'[Len(stock')].pixels
                       = [i \in 1..FlatBufferSize |->
                            IF i <= Len(inflate(CelStream).out)
                            THEN inflate(CelStream).out[i] ELSE 0]]_vars

\* a stream of two bytes for a 1x1 cel has been refused
C23_Witness ==
  /\ Foreign /\ pc = "skip" /\ trace.note = "cel"
  /\ trace.input.subject = "cel_long" /\ c = 5
  /\ errors = <<"Bad compressed image.">>
  /\ Len(cels) = 2 /\ getImage(stock, cels[2].image).w = 1
  /\ getImage(stock, cels[2].image).pixels = <<UNINIT>>

\* C24: whatever the kind tag, width and height of a cel chunk are, the cel
\* it adds to a layer refers to an image that was added to the stock while
\* the chunk was decoded, and no two cels refer to the same image handle.
C24_CelOwnsNewImage ==
  [][(pc = "dispatch" /\ pc' = "skip"
        /\ chunk_type = ASE_FILE_CHUNK_CEL
        /\ Len(cels') = Len(cels) + 1)
       => /\ Len(stock') = Len(stock) + 1
          /\ cels'[Len(cels')].image = Len(stock)
          /\ \A i, j \in 1..Len(cels') :
               i # j => cels'[i].image # cels'[j].image]_vars

\* where the rows of the mask chunk in the file start
MaskRows == ChunkHeaderSize + 18 + Len(trace.mask.name)

\* the pixel (u, v) is inside the mask m
InsideMask(m, u, v) ==
  u >= 0 /\ u < m.w /\ v >= 0 /\ v < m.h /\ m.bitmap[v + 1][u + 1]

\* the chunk holds h rows of ceil(w/8) bytes whose bits are the pixels of m
MaskEmitted(f, m) ==
  /\ Len(f) = MaskRows + m.h * ((m.w + 7) \div 8)
  /\ \A v \in 0..(m.h - 1), u \in 0..(((m.w + 7) \div 8) - 1), k \in 0..7 :
       BitOf(f[MaskRows + v * ((m.w + 7) \div 8) + u + 1], k)
         <=> InsideMask(m, 8 * u + k, v)

\* the mask read is the mask written
MaskRestored(m, r) ==
  /\ r.x = m.x /\ r.y = m.y /\ r.w = m.w /\ r.h = m.h /\ r.name = m.name
  /\ \A v \in 0..(m.h - 1), u \in 0..(m.w - 1) :
       InsideMask(r, u, v) <=> InsideMask(m, u, v)

\* C25: for every mask, ase_file_write_mask_chunk writes h rows of
\* ceil(w/8) bytes in which bit 7 - c of byte u of row v is set exactly when
\* the pixel (8u + c, v) is inside the mask, and ase_file_read_mask_chunk on
\* those bytes gives back the same x, y, w, h and name and the same bit for
\* every pixel of the bounds.
C25_MaskRoundTrip ==
  /\ pc \in {"mask_written", "mask_read"} => MaskEmitted(file, trace.mask)
  /\ pc = "mask_read" => MaskRestored(trace.mask, mask)

\* C26: whatever the skip and size bytes and the number of packets of a
\* palette chunk are, every index its decoder hands to setEntry lies within
\* 0..255 and inside the palette.
C26_EntryIndexInPalette ==
  [][(pc = "dispatch" /\ pc' = "skip"
        /\ chunk_type \in {ASE_FILE_CHUNK_FLI_COLOR, ASE_FILE_CHUNK_FLI_COLOR2}
        /\ sprite.format = "INDEXED")
       => \A i \in 1..Len(trace'.writes) :
            /\ trace'.writes[i] >= 0
            /\ trace'.writes[i] < PaletteFullSize
            /\ InPalette(getPalette(palettes, frame).colors,
                         trace'.writes[i])]_vars

\* the word v as a signed 16-bit value
Signed16(v) == IF v < 32768 THEN v ELSE v - 65536

\* C27: ase_file_read_cel_chunk takes the stored words of the cel offset
\* as signed 16-bit values, v below 32768 as v and any other as v - 65536;
\* and a cel at x, y in -32768..32767 written by ase_file_write_cel_chunk
\* is read back at the same x, y.
C27_CelOffsetSigned ==
  [][((pc = "dispatch" /\ pc' = "skip" /\ chunk_type = ASE_FILE_CHUNK_CEL
         /\ Len(cels') = Len(cels) + 1)
        => (/\ cels'[Len(cels')].x = Signed16(fgetw(file, cursor + 2))
            /\ cels'[Len(cels')].y = Signed16(fgetw(file, cursor + 4))))
     /\ ((pc' = "done" /\ trace'.origin = "save"
            /\ Len(cels') = Len(trace'.source.cels))
          => (\A k \in 1..Len(cels') :
                /\ cels'[k].x = trace'.source.cels[k].x
                /\ cels'[k].y = trace'.source.cels[k].y))]_vars

\* a cel written at (-32768, 32767) has been read back there
C27_Witness ==
  /\ pc = "done" /\ Saved /\ Len(cels) = 1
  /\ trace.source.cels[1].x = -32768 /\ trace.source.cels[1].y = 32767
  /\ cels[1].x = -32768 /\ cels[1].y = 32767
====
